---- MODULE Spec2Model ----
(***************************************************************************)
(* Model of the WhatsApp behaviour-change coach backend:                   *)
(*   src/src/routes/webhooks.ts   the webhook handler                      *)
(*   src/unnamed/part_000         DatabaseService (services/db)            *)
(*   src/unnamed/part_001         TwilioService   (services/twilio)        *)
(*   src/src/services/openai.ts   OpenAIService                            *)
(* Text is a sequence of one-character strings, so that the string         *)
(* operations of the code (replace, trim, lastIndexOf, substring, the      *)
(* regular expressions) are computed character by character.               *)
(***************************************************************************)
EXTENDS Integers, Sequences, FiniteSets, TLC

VARIABLES
    users,          \* rows of table users
    messages,       \* rows of table messages
    dailyLogs,      \* rows of table daily_logs
    goals,          \* rows of table goals
    goalBreakdowns, \* rows of table goal_breakdowns
    today,          \* the calendar day the clock shows
    req,            \* per request slot: the handler's position and locals
    served,         \* webhook requests received so far
    fnArg,          \* input of the pure function under check
    fnRes           \* its result

vars == <<users, messages, dailyLogs, goals, goalBreakdowns, today, req, served, fnArg, fnRes>>
dbVars == <<users, messages, dailyLogs, goals, goalBreakdowns>>
fnVars == <<fnArg, fnRes>>

(***************************************************************************)
(* Bounds of the model.                                                    *)
(***************************************************************************)
MaxRequests == 2    \* webhook requests the server receives
MaxDay == 2         \* calendar days the clock runs through
MaxFragments == 3   \* fragments an input phone string is built from
MaxApplications == 2 \* successive applications of normalizePhone

(***************************************************************************)
(* Strings.                                                                *)
(***************************************************************************)
\* the least and the greatest of a non-empty set of integers
Min(S) == CHOOSE x \in S : \A y \in S : x <= y
Max(S) == 0 - Min({0 - x : x \in S})

\* the class \s of the regular expressions, and what trim() removes
IsWs(c) == c \in {" ", "\n", "\t"}

UpperCase == <<"A", "B", "C", "D", "E", "F", "G", "H", "I", "J", "K", "L", "M",
               "N", "O", "P", "Q", "R", "S", "T", "U", "V", "W", "X", "Y", "Z">>
LowerCase == <<"a", "b", "c", "d", "e", "f", "g", "h", "i", "j", "k", "l", "m",
               "n", "o", "p", "q", "r", "s", "t", "u", "v", "w", "x", "y", "z">>
Digits == {"0", "1", "2", "3", "4", "5", "6", "7", "8", "9"}

Range(f) == {f[i] : i \in DOMAIN f}

\* toLowerCase of one character
LowerChar(c) ==
    IF c \in Range(UpperCase)
    THEN LowerCase[CHOOSE i \in DOMAIN UpperCase : UpperCase[i] = c]
    ELSE c

\* String.prototype.toLowerCase
toLowerCase(s) == [i \in 1..Len(s) |-> LowerChar(s[i])]

\* s.substring(from) with 1-based from
From(s, i) == SubSeq(s, i, Len(s))

\* does pat occur in s at (1-based) position i
OccursAt(s, i, pat) ==
    /\ i >= 1
    /\ i + Len(pat) - 1 <= Len(s)
    /\ \A k \in 1..Len(pat) : s[i + k - 1] = pat[k]

\* String.prototype.indexOf, 1-based, 0 when absent
indexOf(s, pat) ==
    LET hits == {i \in 1..(Len(s) + 1) : OccursAt(s, i, pat)}
    IN IF hits = {} THEN 0 ELSE Min(hits)

\* String.prototype.includes
includes(s, pat) == indexOf(s, pat) # 0

\* String.prototype.startsWith
startsWith(s, pat) == OccursAt(s, 1, pat)

\* String.prototype.replace(pat, rep) with a string pattern: the first
\* occurrence only
replaceFirst(s, pat, rep) ==
    LET i == indexOf(s, pat)
    IN IF i = 0 THEN s
       ELSE SubSeq(s, 1, i - 1) \o rep \o From(s, i + Len(pat))

\* String.prototype.replace(/\s+/g, '')
removeWhitespace(s) == SelectSeq(s, LAMBDA c : ~IsWs(c))

\* String.prototype.trim
trim(s) ==
    LET keep == {i \in 1..Len(s) : ~IsWs(s[i])}
    IN IF keep = {} THEN <<>> ELSE SubSeq(s, Min(keep), Max(keep))

WhatsAppPrefix == <<"w", "h", "a", "t", "s", "a", "p", "p", ":">>
Plus == <<"+">>

(***************************************************************************)
(* DatabaseService.normalizePhone                                          *)
(***************************************************************************)
normalizePhone(input) ==
    LET clean == trim(removeWhitespace(replaceFirst(input, WhatsAppPrefix, <<>>)))
    IN IF ~startsWith(clean, Plus) THEN Plus \o clean ELSE clean

(***************************************************************************)
(* Phone inputs for the check of normalizePhone: every concatenation of    *)
(* at most MaxFragments fragments.                                         *)
(***************************************************************************)
PhoneFragments ==
    { WhatsAppPrefix, Plus, <<"1">>, <<" ">>,
      <<"w", "h", "a", "t", "s">>, <<"a", "p", "p", ":">> }

RECURSIVE Concat(_)
Concat(ss) == IF ss = <<>> THEN <<>> ELSE Head(ss) \o Concat(Tail(ss))

PhoneInputs ==
    UNION { {Concat(fs) : fs \in [1..n -> PhoneFragments]} : n \in 0..MaxFragments }

(***************************************************************************)
(* Regular expressions of the code, computed on positions (1-based; an end *)
(* position is the position after the last matched character).            *)
(***************************************************************************)
\* the class \w
IsWordChar(c) == c \in Range(UpperCase) \cup Range(LowerCase) \cup Digits \cup {"_"}

\* the lower-case literal lit at position i of s, under flag i
LitAt(s, i, lit) ==
    /\ i >= 1
    /\ i + Len(lit) - 1 <= Len(s)
    /\ \A k \in 1..Len(lit) : LowerChar(s[i + k - 1]) = lit[k]

\* greedy \s* from i: the first position at or after i that holds no
\* whitespace (Len(s) + 1 when there is none)
SkipWs(s, i) ==
    IF i > Len(s) THEN i
    ELSE Min({j \in i..(Len(s) + 1) : j = Len(s) + 1 \/ ~IsWs(s[j])})

\* greedy \d* from i
SkipDigits(s, i) ==
    IF i > Len(s) THEN i
    ELSE Min({j \in i..(Len(s) + 1) : j = Len(s) + 1 \/ s[j] \notin Digits})

\* greedy [^\n]* from i (the dot without flag s)
LineEnd(s, i) ==
    IF i > Len(s) THEN i
    ELSE Min({j \in i..(Len(s) + 1) : j = Len(s) + 1 \/ s[j] = "\n"})

\* /\b(w)\b/i at position i
WordAt(s, i, w) ==
    /\ LitAt(s, i, w)
    /\ i = 1 \/ ~IsWordChar(s[i - 1])
    /\ i + Len(w) > Len(s) \/ ~IsWordChar(s[i + Len(w)])

\* /\b(w1|w2|...)\b/i.test(s)
TestWords(s, W) == \E w \in W : \E i \in 1..Len(s) : WordAt(s, i, w)

WeeklyReportLit == <<"w", "e", "e", "k", "l", "y", " ", "r", "e", "p", "o", "r", "t">>
GoalLit == <<"g", "o", "a", "l">>
ReasonLit == <<"r", "e", "a", "s", "o", "n">>
TimelineLit == <<"t", "i", "m", "e", "l", "i", "n", "e">>
SleepLit == <<"s", "l", "e", "e", "p">>
MoodLit == <<"m", "o", "o", "d">>
EnergyLit == <<"e", "n", "e", "r", "g", "y">>
NotesLit == <<"n", "o", "t", "e", "s", ":">>

\* /^weekly report$/i.test(messageBody.trim())
isWeeklyReportCommand(messageBody) ==
    toLowerCase(trim(messageBody)) = WeeklyReportLit

(***************************************************************************)
(* goalPattern of the webhook handler:                                     *)
(*   /Goal\s*:\s*(.+?)(?:\s*\||\n|$)\s*Reason\s*:\s*(.+?)(?:\s*\||\n|$)   *)
(*    \s*Timeline\s*:\s*(.+)/is                                            *)
(* The backtracking matcher tries the start positions left to right, a    *)
(* greedy \s* longest first, a lazy (.+?) shortest first and the          *)
(* alternatives of a group in order, and reports the first path that      *)
(* matches; the operators below choose the same path.                     *)
(***************************************************************************)
\* \s*: from p: the position after the colon, 0 when there is no match
ColonAfter(s, p) ==
    LET q == SkipWs(s, p)
    IN IF q <= Len(s) /\ s[q] = ":" THEN q + 1 ELSE 0

\* \s*lit\s*: from p: the position after the colon, 0 without a match
LabelAt(s, p, lit) ==
    LET q == SkipWs(s, p)
    IN IF LitAt(s, q, lit) THEN ColonAfter(s, q + Len(lit)) ELSE 0

\* a separator without the line break: (?:\s*\||$)
SepEndsPipeOnly(s, e) ==
    LET q == SkipWs(s, e)
    IN (IF q <= Len(s) /\ s[q] = "|" THEN <<q + 1>> ELSE <<>>)
       \o (IF e = Len(s) + 1 THEN <<e>> ELSE <<>>)

\* (?:\s*\||\n|$) from e: the end positions of its alternatives that match,
\* in the order of the alternatives
SepEnds(s, e) ==
    LET q == SkipWs(s, e)
    IN (IF q <= Len(s) /\ s[q] = "|" THEN <<q + 1>> ELSE <<>>)
       \o (IF e <= Len(s) /\ s[e] = "\n" THEN <<e + 1>> ELSE <<>>)
       \o (IF e = Len(s) + 1 THEN <<e>> ELSE <<>>)

\* (.+) after a greedy \s* that starts at c (0: no match so far): the start
\* of the group, which runs to the end of the text (the dot matches line
\* breaks under flag s), 0 when there is no match.  The \s* gives one
\* character back when nothing but whitespace follows c.
GreedyGroup(s, c, w) ==
    IF c = 0 THEN 0
    ELSE IF w <= Len(s) THEN w
    ELSE IF c <= Len(s) THEN Len(s)
    ELSE 0

\* \s*Timeline\s*:\s*(.+) from p: the start of group 3, 0 without a match
TimelineColon(s, c) == GreedyGroup(s, c, SkipWs(s, c))
TimelineTail(s, p) == TimelineColon(s, LabelAt(s, p, TimelineLit))

\* the first of the ends at an index in good, 0 when there is none
FirstOf(ends, good) == IF good = {} THEN 0 ELSE ends[Min(good)]

\* the first alternative of the separator at e after which Rest matches
SepFrom(ends, Rest(_)) == FirstOf(ends, {k \in DOMAIN ends : Rest(ends[k])})
FirstSep(s, e, Rest(_)) == SepFrom(SepEnds(s, e), Rest)

\* the group that starts as late as the \s* before it allows, and ends as
\* early as it can
LazyEnd(a, ends) == <<a, Min({e \in ends : e > a})>>
LazyStart(starts, ends) ==
    IF starts = {} THEN <<0, 0>> ELSE LazyEnd(Max(starts), ends)
LazyPick(s, c, ends) ==
    IF c = 0 THEN <<0, 0>>
    ELSE LazyStart({a \in c..SkipWs(s, c) : \E e \in ends : e > a}, ends)

\* a lazy group (.+?) after a greedy \s* that starts at c, followed by what
\* Ok(e) accepts at its end e: <<start, end>> of the group, <<0, 0>> when
\* there is no match
LazyGroup(s, c, Ok(_)) == LazyPick(s, c, {e \in (c + 1)..(Len(s) + 1) : Ok(e)})

\* the separator after group 2, followed by the timeline
TimelineSep(s, e) == FirstSep(s, e, LAMBDA t : TimelineTail(s, t) # 0)

\* groups 2 and 3, given <<start, end>> of group 2
ReasonGroups(s, g2) ==
    IF g2[1] = 0 THEN [ok |-> FALSE, g2 |-> <<0, 0>>, g3 |-> 0]
    ELSE [ok |-> TRUE, g2 |-> g2, g3 |-> TimelineTail(s, TimelineSep(s, g2[2]))]

\* \s*Reason\s*:\s*(.+?)(?:\s*\||\n|$)\s*Timeline\s*:\s*(.+) from p
ReasonTail(s, p) ==
    ReasonGroups(s, LazyGroup(s, LabelAt(s, p, ReasonLit),
                              LAMBDA e : TimelineSep(s, e) # 0))

\* the separator after group 1, followed by the reason and the timeline
ReasonSep(s, e) == FirstSep(s, e, LAMBDA t : ReasonTail(s, t).ok)

NoMatch == [ok |-> FALSE, g1 |-> <<>>, g2 |-> <<>>, g3 |-> <<>>]

\* the match, given <<start, end>> of group 1 and the groups after it
GoalMatch(s, g1, rest) ==
    [ok |-> TRUE,
     g1 |-> SubSeq(s, g1[1], g1[2] - 1),
     g2 |-> SubSeq(s, rest.g2[1], rest.g2[2] - 1),
     g3 |-> From(s, rest.g3)]

GoalGroups(s, g1) ==
    IF g1[1] = 0 THEN NoMatch
    ELSE GoalMatch(s, g1, ReasonTail(s, ReasonSep(s, g1[2])))

\* the pattern anchored at start position i
GoalPatternAt(s, i) ==
    GoalGroups(s, LazyGroup(s, IF LitAt(s, i, GoalLit)
                               THEN ColonAfter(s, i + Len(GoalLit)) ELSE 0,
                            LAMBDA e : ReasonSep(s, e) # 0))

Leftmost(s, starts) ==
    IF starts = {} THEN NoMatch ELSE GoalPatternAt(s, Min(starts))

\* messageBody.match(goalPattern): the match at the leftmost start
goalPattern(messageBody) ==
    Leftmost(messageBody,
             {i \in 1..Len(messageBody) : GoalPatternAt(messageBody, i).ok})

(***************************************************************************)
(* OpenAIService.parseMorningCheckin: the strict pattern                   *)
(*   /Sleep\s+(\d+(?:\.\d+)?)h?\s*\|\s*Mood\s+(\d+)\s*\|\s*Energy\s+(\d+)  *)
(*    \s*\|\s*Notes:\s*(.+)/i                                              *)
(* Every quantifier of it is followed by a character it cannot match      *)
(* itself, so a match from a given start takes each greedy run whole; the *)
(* one exception is the \s* before the last group, which gives a          *)
(* character back when only whitespace follows "Notes:".  The groups are  *)
(* matched from left to right, each operator handing the positions found  *)
(* so far to the next.                                                     *)
(***************************************************************************)
\* \s+(\d+) from p: <<start, end>> of the digits, <<0, 0>> without a match
DigitsFrom(p, a, e) == IF p = 0 \/ a = p \/ e = a THEN <<0, 0>> ELSE <<a, e>>
WsThen(s, p, a) == DigitsFrom(p, a, SkipDigits(s, a))
WsDigits(s, p) == WsThen(s, p, SkipWs(s, p))

\* \s*\|\s* from p followed by the literal lit: the position after lit, 0
\* without a match
BarAt(s, p, q, lit) ==
    IF p # 0 /\ q <= Len(s) /\ s[q] = "|" /\ LitAt(s, SkipWs(s, q + 1), lit)
    THEN SkipWs(s, q + 1) + Len(lit) ELSE 0
BarThen(s, p, lit) == BarAt(s, p, SkipWs(s, p), lit)

NoStrictMatch ==
    [ok |-> FALSE, g1 |-> <<>>, frac |-> <<>>, g2 |-> <<>>, g3 |-> <<>>, g4 |-> <<>>]

\* (.+) of the notes, the dot stopping at a line break: <<start, end>>
NotesBack(back) == IF back = {} THEN <<0, 0>> ELSE <<Max(back), Max(back) + 1>>
NotesGroup(s, n0, n1) ==
    IF n1 <= Len(s) THEN <<n1, LineEnd(s, n1)>>
    ELSE NotesBack({k \in n0..Len(s) : s[k] # "\n"})

\* the groups as texts: d1, d2, d3 and n are <<start, end>> of groups 1 to
\* 4, and f is the end of the fraction of group 1
StrictMatch(s, d1, f, d2, d3, n) ==
    IF n[1] = 0 THEN NoStrictMatch
    ELSE [ok |-> TRUE,
          g1 |-> SubSeq(s, d1[1], d1[2] - 1),     \* integer digits of group 1
          frac |-> SubSeq(s, d1[2] + 1, f - 1),   \* its digits after the point
          g2 |-> SubSeq(s, d2[1], d2[2] - 1),
          g3 |-> SubSeq(s, d3[1], d3[2] - 1),
          g4 |-> SubSeq(s, n[1], n[2] - 1)]

StrictNotes(s, d1, f, d2, d3, n0) ==
    IF n0 = 0 THEN NoStrictMatch
    ELSE StrictMatch(s, d1, f, d2, d3, NotesGroup(s, n0, SkipWs(s, n0)))

StrictEnergy(s, d1, f, d2, d3) ==
    StrictNotes(s, d1, f, d2, d3,
                IF d3[1] = 0 THEN 0 ELSE BarThen(s, d3[2], NotesLit))

StrictMood(s, d1, f, d2) ==
    StrictEnergy(s, d1, f, d2,
                 WsDigits(s, IF d2[1] = 0 THEN 0 ELSE BarThen(s, d2[2], EnergyLit)))

\* h? after the number
AfterHours(s, f) == IF f <= Len(s) /\ LowerChar(s[f]) = "h" THEN f + 1 ELSE f

StrictHours(s, d1, f) ==
    StrictMood(s, d1, f,
               WsDigits(s, IF d1[1] = 0 THEN 0
                           ELSE BarThen(s, AfterHours(s, f), MoodLit)))

\* (?:\.\d+)? after the digits that end at e
FractionEnd(s, e, e2) ==
    IF e <= Len(s) /\ s[e] = "." /\ e2 > e + 1 THEN e2 ELSE e

StrictSleep(s, d1) ==
    StrictHours(s, d1, FractionEnd(s, d1[2], SkipDigits(s, d1[2] + 1)))

\* the groups of the pattern anchored at start i
StrictAt(s, i) ==
    StrictSleep(s, WsDigits(s, IF LitAt(s, i, SleepLit) THEN i + Len(SleepLit) ELSE 0))

\* parseInt(digits, 10) of a digit string
DigitValue(c) == CHOOSE v \in 0..9 : <<"0", "1", "2", "3", "4", "5", "6", "7", "8", "9">>[v + 1] = c

RECURSIVE parseInt(_)
parseInt(ds) ==
    IF ds = <<>> THEN 0
    ELSE 10 * parseInt(SubSeq(ds, 1, Len(ds) - 1)) + DigitValue(ds[Len(ds)])

\* Number.prototype.toString of a natural number
RECURSIVE toString(_)
toString(n) ==
    LET d == <<<<"0", "1", "2", "3", "4", "5", "6", "7", "8", "9">>[(n % 10) + 1]>>
    IN IF n < 10 THEN d ELSE toString(n \div 10) \o d

\* the digits after the point without trailing zeros: the fraction of the
\* number parseFloat returns
Fraction(ds) ==
    LET keep == {i \in 1..Len(ds) : ds[i] # "0"}
    IN IF keep = {} THEN <<>> ELSE SubSeq(ds, 1, Max(keep))

\* a check-in record: the fields the model carries; an absent field is the
\* empty text, sleep_hours is a number (whole part, fraction digits)
NoNumber == [present |-> FALSE, whole |-> 0, frac |-> <<>>]
NullCheckin ==
    [isNull |-> TRUE, sleep_hours |-> NoNumber, current_mood |-> <<>>,
     current_energy_level |-> <<>>, notes |-> <<>>]

\* a record that takes the mood for the energy and the energy for the mood
checkinOfSwapped(match) ==
    [isNull |-> FALSE,
     sleep_hours |-> [present |-> TRUE, whole |-> parseInt(match.g1),
                      frac |-> Fraction(match.frac)],
     current_mood |-> toString(parseInt(match.g3)),
     current_energy_level |-> toString(parseInt(match.g2)),
     notes |-> trim(match.g4)]

\* the record parseMorningCheckin returns for a match
checkinOf(match) ==
    [isNull |-> FALSE,
     sleep_hours |-> [present |-> TRUE, whole |-> parseInt(match.g1),
                      frac |-> Fraction(match.frac)],
     current_mood |-> toString(parseInt(match.g2)),
     current_energy_level |-> toString(parseInt(match.g3)),
     notes |-> trim(match.g4)]

LeftmostCheckin(message, starts) ==
    IF starts = {} THEN NullCheckin
    ELSE checkinOf(StrictAt(message, Min(starts)))

parseMorningCheckin(message) ==
    LeftmostCheckin(message, {i \in 1..Len(message) : StrictAt(message, i).ok})

(***************************************************************************)
(* OpenAIService.isLikelyCheckin                                           *)
(***************************************************************************)
checkinKeywords ==
    { <<"y", "e", "s", "t", "e", "r", "d", "a", "y">>,
      <<"t", "o", "d", "a", "y">>,
      <<"m", "o", "r", "n", "i", "n", "g">>,
      <<"c", "h", "e", "c", "k", "-", "i", "n">>,
      <<"c", "h", "e", "c", "k", "i", "n">>,
      <<"r", "o", "u", "t", "i", "n", "e">>,
      <<"a", "c", "t", "i", "v", "i", "t", "i", "e", "s">>,
      <<"s", "l", "e", "e", "p">>,
      <<"m", "o", "o", "d">>,
      <<"e", "n", "e", "r", "g", "y">>,
      <<"p", "l", "a", "n">>,
      <<"g", "o", "a", "l", "s">>,
      <<"p", "r", "i", "o", "r", "i", "t", "i", "e", "s">>,
      <<"r", "e", "f", "l", "e", "c", "t", "i", "o", "n">>,
      <<"d", "i", "d">>,
      <<"a", "c", "c", "o", "m", "p", "l", "i", "s", "h", "e", "d">>,
      <<"c", "o", "m", "p", "l", "e", "t", "e", "d">>,
      <<"w", "o", "r", "k", "e", "d", " ", "o", "n">>,
      <<"f", "o", "c", "u", "s", "e", "d", " ", "o", "n">> }

timePatterns ==
    { <<"y", "e", "s", "t", "e", "r", "d", "a", "y">>,
      <<"t", "o", "d", "a", "y">>,
      <<"t", "h", "i", "s", " ", "m", "o", "r", "n", "i", "n", "g">>,
      <<"l", "a", "s", "t", " ", "n", "i", "g", "h", "t">>,
      <<"s", "l", "e", "p", "t">>,
      <<"w", "o", "k", "e", " ", "u", "p">>,
      <<"g", "o", "t", " ", "u", "p">>,
      <<"p", "l", "a", "n">>,
      <<"p", "l", "a", "n", "s">>,
      <<"g", "o", "i", "n", "g", " ", "t", "o">>,
      <<"w", "a", "n", "t", " ", "t", "o">>,
      <<"n", "e", "e", "d", " ", "t", "o">>,
      <<"d", "i", "d">>,
      <<"a", "c", "c", "o", "m", "p", "l", "i", "s", "h", "e", "d">>,
      <<"c", "o", "m", "p", "l", "e", "t", "e", "d">>,
      <<"w", "o", "r", "k", "e", "d", " ", "o", "n">> }

reflectionPatterns ==
    { <<"f", "e", "e", "l", "i", "n", "g">>,
      <<"f", "e", "l", "t">>,
      <<"w", "a", "s">>,
      <<"w", "e", "r", "e">>,
      <<"g", "o", "o", "d">>,
      <<"b", "a", "d">>,
      <<"g", "r", "e", "a", "t">>,
      <<"t", "i", "r", "e", "d">>,
      <<"e", "n", "e", "r", "g", "e", "t", "i", "c">>,
      <<"m", "o", "t", "i", "v", "a", "t", "e", "d">>,
      <<"c", "h", "a", "l", "l", "e", "n", "g", "e">>,
      <<"d", "i", "f", "f", "i", "c", "u", "l", "t">>,
      <<"e", "a", "s", "y">>,
      <<"s", "t", "r", "u", "g", "g", "l", "e", "d">>,
      <<"s", "u", "c", "c", "e", "e", "d", "e", "d">> }

\* a pre-filter whose patterns have no word boundaries
isLikelyCheckinSubstrings(message) ==
    LET lowerMessage == toLowerCase(message)
    IN \E w \in checkinKeywords \cup timePatterns \cup reflectionPatterns :
          includes(lowerMessage, w)

isLikelyCheckin(message) ==
    LET lowerMessage == toLowerCase(message)
        hasCheckinKeywords == \E keyword \in checkinKeywords : includes(lowerMessage, keyword)
        hasTimePatterns == TestWords(message, timePatterns)
        hasReflectionPatterns == TestWords(message, reflectionPatterns)
    IN hasCheckinKeywords \/ hasTimePatterns \/ hasReflectionPatterns

(***************************************************************************)
(* TwilioService (services/twilio).                                        *)
(***************************************************************************)
MAX_MESSAGE_LENGTH == 1600

\* String.prototype.lastIndexOf(" ", fromIndex) with the 0-based indices of
\* the code: the last index at most fromIndex that holds a space, -1 when
\* there is none
lastIndexOf(s, fromIndex) ==
    LET hits == {i \in 0..fromIndex : i + 1 <= Len(s) /\ s[i + 1] = " "}
    IN IF hits = {} THEN -1 ELSE Max(hits)

\* String.prototype.substring(start, end) with the 0-based indices of the code
substring(s, start, end) == SubSeq(s, start + 1, end)

\* TwilioService.splitMessage (lastSpaceIndex > maxLength * 0.8 is compared
\* in tenths)
RECURSIVE splitMessage(_, _)
splitMessage(remainingMessage, maxLength) ==
    IF Len(remainingMessage) = 0 THEN <<>>
    ELSE IF Len(remainingMessage) <= maxLength THEN <<remainingMessage>>
    ELSE LET lastSpaceIndex == lastIndexOf(remainingMessage, maxLength)
             splitIndex == IF 10 * lastSpaceIndex > 8 * maxLength
                           THEN lastSpaceIndex ELSE maxLength
         IN <<trim(substring(remainingMessage, 0, splitIndex))>>
            \o splitMessage(trim(substring(remainingMessage, splitIndex,
                                           Len(remainingMessage))), maxLength)

\* `[${partNumber}/${totalParts}] ${messageParts[i]}`
partMessage(partNumber, totalParts, part) ==
    <<"[">> \o toString(partNumber) \o <<"/">> \o toString(totalParts)
            \o <<"]", " ">> \o part

\* the contact as sendWhatsAppMessage addresses it
toWhatsApp(to) ==
    LET cleanPhone == trim(removeWhitespace(replaceFirst(to, WhatsAppPrefix, <<>>)))
    IN WhatsAppPrefix \o (IF ~startsWith(cleanPhone, Plus) THEN Plus \o cleanPhone
                          ELSE cleanPhone)

\* the bodies sendWhatsAppMessage hands to client.messages.create, in order
outboundBodies(message) ==
    IF Len(message) <= MAX_MESSAGE_LENGTH THEN <<message>>
    ELSE LET messageParts == splitMessage(message, MAX_MESSAGE_LENGTH)
         IN [i \in 1..Len(messageParts) |->
                partMessage(i, Len(messageParts), messageParts[i])]

\* sendWhatsAppMessage when the first k calls of the messaging API succeed
\* and the next one (if any) throws: the calls made, each with its outcome,
\* and the returned identifier (the number of the last call; 0 is null)
sendBodies(to, bodies, k) ==
    LET made == IF k < Len(bodies) THEN k + 1 ELSE Len(bodies)
    IN [calls |-> [i \in 1..made |->
                      [to |-> toWhatsApp(to), body |-> bodies[i], ok |-> i <= k]],
        sid |-> IF k >= Len(bodies) THEN Len(bodies) ELSE 0]

sendWhatsAppMessage(to, message, k) == sendBodies(to, outboundBodies(message), k)

\* every way sendWhatsAppMessage can end
sendOutcomes(to, bodies) == {sendBodies(to, bodies, k) : k \in 0..Len(bodies)}
sendResults(to, message) == sendOutcomes(to, outboundBodies(message))

(***************************************************************************)
(* Fixed texts of the replies.                                             *)
\* the confirmation of the goal branch, around main_goal, reason and timeline
goalSetHead ==
    <<"Y", "o", "u", "r", " ", "m", "a", "i", "n", " ", "g", "o", "a", "l",
      " ", "h", "a", "s", " ", "b", "e", "e", "n", " ", "s", "e", "t", "!",
      "\n", "G", "o", "a", "l", ":", " ">>

goalSetReason ==
    <<"\n", "R", "e", "a", "s", "o", "n", ":", " ">>

goalSetTimeline ==
    <<"\n", "T", "i", "m", "e", "l", "i", "n", "e", ":", " ">>

goalSetTail ==
    <<"\n", "M", "i", "l", "e", "s", "t", "o", "n", "e", "s", " ", "h", "a",
      "v", "e", " ", "b", "e", "e", "n", " ", "g", "e", "n", "e", "r", "a",
      "t", "e", "d", ".", " ", "Y", "o", "u", " ", "c", "a", "n", " ", "n",
      "o", "w", " ", "s", "e", "n", "d", " ", "y", "o", "u", "r", " ", "d",
      "a", "i", "l", "y", " ", "c", "h", "e", "c", "k", "-", "i", "n", "s",
      "!">>

\* the reply of the goal branch's catch
goalApology ==
    <<"S", "o", "r", "r", "y", ",", " ", "t", "h", "e", "r", "e", " ", "w",
      "a", "s", " ", "a", " ", "p", "r", "o", "b", "l", "e", "m", " ", "s",
      "a", "v", "i", "n", "g", " ", "y", "o", "u", "r", " ", "g", "o", "a",
      "l", ".", " ", "P", "l", "e", "a", "s", "e", " ", "t", "r", "y", " ",
      "a", "g", "a", "i", "n", ".">>

\* the head of the check-in branch's reply
dailyPlanHead ==
    <<"H", "e", "r", "e", "'", "s", " ", "y", "o", "u", "r", " ", "p", "e",
      "r", "s", "o", "n", "a", "l", "i", "z", "e", "d", " ", "d", "a", "i",
      "l", "y", " ", "p", "l", "a", "n", " ", "b", "a", "s", "e", "d", " ",
      "o", "n", " ", "y", "o", "u", "r", " ", "c", "h", "e", "c", "k", "-",
      "i", "n", " ", "a", "n", "d", " ", "r", "e", "c", "e", "n", "t", " ",
      "p", "a", "t", "t", "e", "r", "n", "s", ":", "\n", "\n">>

\* generateDailyPlan: the model returned no content
dailyPlanEmpty ==
    <<"U", "n", "a", "b", "l", "e", " ", "t", "o", " ", "g", "e", "n", "e",
      "r", "a", "t", "e", " ", "a", " ", "p", "l", "a", "n", " ", "r", "i",
      "g", "h", "t", " ", "n", "o", "w", ".">>

\* generateDailyPlan: the call failed
dailyPlanApology ==
    <<"I", "'", "m", " ", "h", "a", "v", "i", "n", "g", " ", "t", "r", "o",
      "u", "b", "l", "e", " ", "g", "e", "n", "e", "r", "a", "t", "i", "n",
      "g", " ", "y", "o", "u", "r", " ", "d", "a", "i", "l", "y", " ", "p",
      "l", "a", "n", " ", "r", "i", "g", "h", "t", " ", "n", "o", "w", ".",
      " ", "P", "l", "e", "a", "s", "e", " ", "t", "r", "y", " ", "a", "g",
      "a", "i", "n", " ", "l", "a", "t", "e", "r", ".">>

\* generateGeneralResponse: no content, or the call failed
generalFallback ==
    <<"I", "'", "m", " ", "h", "e", "r", "e", " ", "t", "o", " ", "h", "e",
      "l", "p", "!", " ", "H", "o", "w", " ", "c", "a", "n", " ", "I", " ",
      "s", "u", "p", "p", "o", "r", "t", " ", "y", "o", "u", " ", "t", "o",
      "d", "a", "y", "?">>

\* generateWeeklyReport: the model returned no content
weeklyReportEmpty ==
    <<"S", "o", "r", "r", "y", ",", " ", "c", "o", "u", "l", "d", " ", "n",
      "o", "t", " ", "g", "e", "n", "e", "r", "a", "t", "e", " ", "r", "e",
      "p", "o", "r", "t", ".">>

\* generateWeeklyReport: the call failed
weeklyReportApology ==
    <<"S", "o", "r", "r", "y", ",", " ", "t", "h", "e", "r", "e", " ", "w",
      "a", "s", " ", "a", " ", "p", "r", "o", "b", "l", "e", "m", " ", "g",
      "e", "n", "e", "r", "a", "t", "i", "n", "g", " ", "y", "o", "u", "r",
      " ", "w", "e", "e", "k", "l", "y", " ", "r", "e", "p", "o", "r", "t",
      ".">>

(***************************************************************************)
(* Inputs drawn by the environment.                                        *)
(***************************************************************************)
\* raw sender addresses: two forms of one phone number, and another number
\* three senders: two forms of one number, and another number
Sender1 == <<"w", "h", "a", "t", "s", "a", "p", "p", ":", "+", "1", "5">>
Sender2 == <<"+", "1", " ", "5">>
Sender3 == <<"w", "h", "a", "t", "s", "a", "p", "p", ":", "+", "1", "6">>
Senders == {Sender1, Sender2, Sender3}

WeeklyBody == <<" ", "W", "e", "e", "k", "l", "y", " ", "R", "e", "p", "o", "r", "t">>
StrictBody ==
    <<"S", "l", "e", "e", "p", " ", "7", "h", " ", "|", " ", "M", "o", "o", "d",
      " ", "8", " ", "|", " ", "E", "n", "e", "r", "g", "y", " ", "6", " ", "|",
      " ", "N", "o", "t", "e", "s", ":", " ", "o", "k">>
GoalBody ==
    <<"G", "o", "a", "l", ":", " ", "r", "u", "n", " ", "|", " ", "R", "e", "a",
      "s", "o", "n", ":", " ", "f", "i", "t", " ", "|", " ", "T", "i", "m", "e",
      "l", "i", "n", "e", ":", " ", "M", "a", "y">>
\* a goal declaration whose timeline is a strict check-in
GoalCheckinBody ==
    <<"g", "o", "a", "l", ":", "a", "\n", "r", "e", "a", "s", "o", "n", ":", "b",
      "\n", "t", "i", "m", "e", "l", "i", "n", "e", ":">> \o StrictBody
FlexibleBody == <<"I", " ", "s", "l", "e", "p", "t", " ", "w", "e", "l", "l">>
GeneralBody == <<"h", "e", "l", "l", "o">>

Bodies == {WeeklyBody, GoalBody, GoalCheckinBody, StrictBody, FlexibleBody, GeneralBody}

\* a second check-in in the strict form, with other values
LaterStrictBody ==
    <<"S", "l", "e", "e", "p", " ", "6", "h", " ", "|", " ", "M", "o", "o", "d",
      " ", "5", " ", "|", " ", "E", "n", "e", "r", "g", "y", " ", "4", " ", "|",
      " ", "N", "o", "t", "e", "s", ":", " ", "h", "m">>

\* the form fields of a webhook request: From, Body and ProfileName, each
\* of which may be empty or missing
RequestPayloads ==
    { [From |-> Sender1, Body |-> b, ProfileName |-> <<" ", "A", "l">>] : b \in Bodies }
    \cup { [From |-> Sender2, Body |-> b] : b \in {StrictBody, GeneralBody} }
    \cup { [From |-> Sender3, Body |-> GeneralBody, ProfileName |-> <<" ">>],
           [From |-> <<>>, Body |-> GeneralBody, ProfileName |-> <<>>],
           [From |-> Sender1, Body |-> <<>>],
           [From |-> Sender1],
           [Body |-> GeneralBody] }

\* what the patterns of the handler find in each body of the model,
\* computed once
bodyMatches ==
    [b \in Bodies \cup {<<>>} |->
        [weekly |-> isWeeklyReportCommand(b),
         goalMatch |-> goalPattern(b),
         checkin |-> parseMorningCheckin(b),
         likely |-> isLikelyCheckin(b)]]

\* how a call of the storage client can end: it resolves with data, it
\* rejects (the try/catch of the method sees it), or it resolves with
\* {data: null, error}
StorageOutcomes == {"ok", "throw", "error"}

\* the contents an LLM completion can have: none, a short one, and one of
\* twice the length a message may have, without a space
LLMContents ==
    << <<>>,
       <<" ", "o", "k", "\n">>,
       [i \in 1..(2 * MAX_MESSAGE_LENGTH) |-> "a"] >>

\* what an LLM completion can be: the call throws, or it returns a content
\* (by its number in LLMContents)
LLMReplies ==
    { [threw |-> TRUE, content |-> 0] }
    \cup { [threw |-> FALSE, content |-> c] : c \in DOMAIN LLMContents }

\* A text in the state is a head of characters followed by the trimmed
\* content of a completion, kept by its number (0: none); Chars is the text
\* itself.
Plain(s) == [head |-> s, content |-> 0]
trimmedContents == [c \in DOMAIN LLMContents |-> trim(LLMContents[c])]
Chars(text) ==
    text.head \o (IF text.content = 0 THEN <<>> ELSE trimmedContents[text.content])

\* response.choices[0]?.message?.content?.trim() || fallback, and the catch
generated(reply, fallback, apology) ==
    IF reply.threw THEN Plain(apology)
    ELSE IF trimmedContents[reply.content] = <<>> THEN Plain(fallback)
    ELSE [head |-> <<>>, content |-> reply.content]

(***************************************************************************)
(* Rows and the request slot.                                              *)
(***************************************************************************)
NullUser == [id |-> 0, phone |-> <<>>, name |-> <<>>]
NoResponse == [code |-> 0, body |-> [none |-> TRUE]]

\* main_goal, reason and timeline of a request of POST /set-goal
NoGoalInput == [main_goal |-> <<>>, reason |-> <<>>, timeline |-> <<>>]

\* route is the handler that serves the request, input the fields of a
\* request of /set-goal, completions the number of completions
\* generateGoalBreakdowns has asked for
IdleRequest ==
    [pc |-> "idle", route |-> "whatsapp", from |-> <<>>, body |-> <<>>,
     profile_name |-> <<>>, input |-> NoGoalInput,
     user |-> NullUser, branch |-> "none", checkin |-> NullCheckin,
     today |-> 0, existing |-> 0, goal_id |-> 0, breakdowns |-> <<>>,
     completions |-> 0,
     responseMessage |-> Plain(<<>>), messageSid |-> 0, sent |-> <<>>,
     response |-> NoResponse, events |-> {}, usersBefore |-> 0]

Reqs == {1, 2}

\* TwilioService.parseIncomingMessage: requestData[key] || ''
Field(requestData, key) ==
    IF key \in DOMAIN requestData THEN requestData[key] ELSE <<>>

parseIncomingMessage(requestData) ==
    [from |-> Field(requestData, "From"),
     body |-> Field(requestData, "Body"),
     profile_name |-> Field(requestData, "ProfileName")]

\* select('*').eq('phone', normalized).maybeSingle(): the row, or NullUser
UserWithPhone(normalized) ==
    LET hits == {i \in DOMAIN users : users[i].phone = normalized}
    IN IF Cardinality(hits) = 1 THEN users[CHOOSE i \in hits : TRUE] ELSE NullUser

\* a lookup that finds no row
DailyLogIdNone(userId, date) == 0

\* select('*').eq('user_id', userId).eq('date', date).maybeSingle(): the id
\* of the row, 0 when there is none
DailyLogId(userId, date) ==
    LET hits == {i \in DOMAIN dailyLogs :
                    dailyLogs[i].user_id = userId /\ dailyLogs[i].date = date}
    IN IF Cardinality(hits) = 1 THEN CHOOSE i \in hits : TRUE ELSE 0

\* select('*').eq('user_id', userId).eq('is_active', true)
ActiveGoals(userId) ==
    SelectSeq(goals, LAMBDA g : g.user_id = userId /\ g.is_active)

\* res.status(code).json(body): the request is answered
Respond(q, code, body) ==
    [q EXCEPT !.pc = "done", !.response = [code |-> code, body |-> body]]

\* the catch of the handler
InternalError(q) == Respond(q, 500, [error |-> "Internal server error"])

\* what happened while the request was served (not a variable of the code)
Event(q, e) == [q EXCEPT !.events = @ \cup {e}]

(***************************************************************************)
(* handleWhatsAppWebhook, one action per await of the handler.  r is the   *)
(* request slot; o is how the storage call of the step ends.               *)
(***************************************************************************)
Upd(r, q) == req' = [req EXCEPT ![r] = q]

Faulty(q, o) == IF o = "ok" THEN q ELSE Event(q, "fault")

\* a validation that looks at the sender only
invalidFromOnly(messageData) == messageData.from = <<>>

\* line 14: !messageData.from || !messageData.body
invalid(messageData) == messageData.from = <<>> \/ messageData.body = <<>>

\* lines 10-21: parse and validate the payload
Receive(r, requestData) ==
    LET messageData == parseIncomingMessage(requestData)
        q == [IdleRequest EXCEPT !.from = messageData.from,
                                 !.body = messageData.body,
                                 !.profile_name = messageData.profile_name,
                                 !.usersBefore = Len(users)]
    IN /\ req[r].pc \in {"idle", "done"}
       /\ served < MaxRequests
       /\ served' = served + 1
       /\ IF invalid(messageData)
          THEN Upd(r, Respond(q, 400, [error |-> "Invalid message data"]))
          ELSE Upd(r, [q EXCEPT !.pc = "getUserByPhone"])
       /\ UNCHANGED <<dbVars, today, fnVars>>

\* what follows once the user is there: line 33 of the webhook, line 174 of
\* /set-goal
AfterUser(q) == IF q.route = "set-goal" THEN "setMainGoal" ELSE "logMessage"

\* lines 23 and 168, DatabaseService.getUserByPhone: a failed read is "no
\* user"
GetUserByPhone(r, o) ==
    LET q == req[r]
        user == IF o = "ok" THEN UserWithPhone(normalizePhone(q.from)) ELSE NullUser
    IN /\ q.pc = "getUserByPhone"
       /\ Upd(r, Faulty([q EXCEPT !.user = user,
                                  !.pc = IF user.id # 0 THEN AfterUser(q)
                                         ELSE "createUser"], o))
       /\ UNCHANGED <<dbVars, today, served, fnVars>>

\* lines 27 and 170, DatabaseService.createUser up to its insert: the existing row
\* is returned when the select finds one
CreateUserSelect(r, o) ==
    LET q == req[r]
        existing == IF o = "ok" THEN UserWithPhone(normalizePhone(q.from)) ELSE NullUser
    IN /\ q.pc = "createUser"
       /\ Upd(r, Faulty(IF o = "throw" THEN Event(InternalError(q), "create_user_failed")
                        ELSE IF existing.id # 0
                        THEN [q EXCEPT !.user = existing, !.pc = AfterUser(q)]
                        ELSE Event([q EXCEPT !.pc = "insertUser"],
                                   IF o = "ok" THEN "no_user_seen" ELSE "fault"), o))
       /\ UNCHANGED <<dbVars, today, served, fnVars>>

\* a row that keeps the phone as it came
userDataRaw(phone, name) ==
    [id |-> Len(users) + 1, phone |-> phone, name |-> name]

\* the row createUser inserts
userData(phone, name) ==
    [id |-> Len(users) + 1, phone |-> normalizePhone(phone), name |-> name]

\* an insert into a table that has no UNIQUE constraint on phone
CreateUserInsertNoUnique(r, o) ==
    LET q == Event(req[r], "insert_issued")
        row == [id |-> Len(users) + 1, phone |-> normalizePhone(q.from),
                name |-> trim(q.profile_name)]
    IN /\ q.pc = "insertUser"
       /\ IF o = "ok"
          THEN /\ users' = Append(users, row)
               /\ Upd(r, Event([q EXCEPT !.user = row, !.pc = AfterUser(q)],
                               "user_inserted"))
          ELSE /\ users' = users
               /\ Upd(r, Event(Event(InternalError(q), "create_user_failed"), "fault"))
       /\ UNCHANGED <<messages, dailyLogs, goals, goalBreakdowns, today, served, fnVars>>

\* the insert of createUser.  users.phone is UNIQUE: an insert of a phone
\* that has a row resolves with an error, and createUser returns
\* insert.data, which is null then; line 33 reads user.id and throws.
CreateUserInsert(r, o) ==
    LET q == Event(req[r], "insert_issued")
        row == userData(q.from, trim(q.profile_name))
        rejected == \E i \in DOMAIN users : users[i].phone = row.phone
    IN /\ q.pc = "insertUser"
       /\ IF o = "ok" /\ ~rejected
          THEN /\ users' = Append(users, row)
               /\ Upd(r, Event([q EXCEPT !.user = row, !.pc = AfterUser(q)],
                               "user_inserted"))
          ELSE /\ users' = users
               /\ Upd(r, Event(Event(Event(InternalError(q), "create_user_failed"),
                                     IF o = "ok" THEN "insert_rejected" ELSE "fault"),
                               "fault"))
       /\ UNCHANGED <<messages, dailyLogs, goals, goalBreakdowns, today, served, fnVars>>

\* main_goal, reason and timeline of a goal declaration (lines 58-60)
GoalFields(messageBody) ==
    LET goalMatch == bodyMatches[messageBody].goalMatch
    IN [main_goal |-> trim(goalMatch.g1), reason |-> trim(goalMatch.g2),
        timeline |-> trim(goalMatch.g3)]

\* a decision chain that tries the check-in before the goal declaration
DecideCheckinFirst(q) ==
    IF bodyMatches[q.body].weekly
    THEN [q EXCEPT !.branch = "weekly", !.pc = "generateWeeklyReport"]
    ELSE IF ~bodyMatches[q.body].checkin.isNull
    THEN [q EXCEPT !.branch = "checkin", !.checkin = bodyMatches[q.body].checkin,
                   !.today = today, !.pc = "createDailyLog"]
    ELSE IF bodyMatches[q.body].goalMatch.ok
    THEN [q EXCEPT !.branch = "goal", !.pc = "setMainGoal"]
    ELSE IF bodyMatches[q.body].likely
    THEN Event([q EXCEPT !.pc = "parseMorningCheckinFlexible"], "flexible")
    ELSE Event([q EXCEPT !.branch = "general", !.pc = "generateGeneralResponse"],
               "flexible")

\* lines 37-89, the code between the log of the inbound message and the
\* next await: the decision chain
Decide(q) ==
    IF bodyMatches[q.body].weekly
    THEN [q EXCEPT !.branch = "weekly", !.pc = "generateWeeklyReport"]
    ELSE IF bodyMatches[q.body].goalMatch.ok
    THEN [q EXCEPT !.branch = "goal", !.pc = "setMainGoal"]
    ELSE LET checkin == bodyMatches[q.body].checkin
         IN IF ~checkin.isNull
            THEN [q EXCEPT !.branch = "checkin", !.checkin = checkin,
                           !.today = today, !.pc = "createDailyLog"]
            ELSE IF bodyMatches[q.body].likely
            THEN Event([q EXCEPT !.pc = "parseMorningCheckinFlexible"], "flexible")
            ELSE Event([q EXCEPT !.branch = "general", !.pc = "generateGeneralResponse"],
                       "flexible")

\* line 33, DatabaseService.logMessage of the inbound message, and the
\* decision chain.  logMessage rethrows what the client throws; an error
\* the client resolves with goes unnoticed.
LogInbound(r, o) ==
    LET q == req[r]
    IN /\ q.pc = "logMessage"
       /\ messages' = IF o = "ok"
                      THEN Append(messages, [user_id |-> q.user.id,
                                             direction |-> "inbound", body |-> Plain(q.body)])
                      ELSE messages
       /\ Upd(r, IF o = "ok" THEN Decide(Event(q, "inbound_logged"))
                 ELSE IF o = "throw"
                 THEN InternalError(Event(Event(q, "inbound_log_threw"), "fault"))
                 ELSE Decide(Event(Event(q, "inbound_log_unnoticed"), "fault")))
       /\ UNCHANGED <<users, dailyLogs, goals, goalBreakdowns, today, served, fnVars>>

(***************************************************************************)
(* The weekly-report branch (lines 37-44).                                 *)
(***************************************************************************)
\* what the completion of a reply was: the call threw (the catch of the
\* generator), or the content was missing or blank
Generation(q, reply) ==
    IF reply.threw THEN Event(q, "generation_failed")
    ELSE IF trimmedContents[reply.content] = <<>> THEN Event(q, "generation_empty")
    ELSE q

\* line 39, generateWeeklyReport: its reads never throw, and the text is
\* the completion, or a fixed text when there is none
GenerateWeeklyReport(r, reply) ==
    LET q == Generation(req[r], reply)
        report == generated(reply, weeklyReportEmpty, weeklyReportApology)
    IN /\ q.pc = "generateWeeklyReport"
       /\ Upd(r, Faulty(Event([q EXCEPT !.responseMessage = report, !.pc = "sendReport"],
                              "weekly_report"),
                        IF reply.threw THEN "throw" ELSE "ok"))
       /\ UNCHANGED <<dbVars, today, served, fnVars>>

\* the slot after sendWhatsAppMessage returned
Sent(q, result) ==
    Event([q EXCEPT !.sent = result.calls, !.messageSid = result.sid],
          IF result.sid # 0 THEN "send_ok" ELSE "send_failed")

\* line 40: the report is sent and what the send returns is dropped
SendReport(r) ==
    LET q == req[r]
    IN /\ q.pc = "sendReport"
       /\ \E result \in sendResults(q.from, Chars(q.responseMessage)) :
             Upd(r, [Sent(q, result) EXCEPT !.pc = "logReport"])
       /\ UNCHANGED <<dbVars, today, served, fnVars>>

\* lines 41-43: the outbound message is logged and the request answered
LogReport(r, o) ==
    LET q == req[r]
    IN /\ q.pc = "logReport"
       /\ messages' = IF o = "ok"
                      THEN Append(messages, [user_id |-> q.user.id,
                                             direction |-> "outbound",
                                             body |-> q.responseMessage])
                      ELSE messages
       /\ Upd(r, IF o = "throw" THEN Event(InternalError(q), "fault")
                 ELSE Respond(IF o = "ok" THEN Event(q, "outbound_logged")
                              ELSE Event(q, "fault"),
                              200, [status |-> "Weekly report sent"]))
       /\ UNCHANGED <<users, dailyLogs, goals, goalBreakdowns, today, served, fnVars>>

(***************************************************************************)
(* The goal branch (lines 56-80).                                          *)
(***************************************************************************)
\* line 76
goalSetMessage(f) ==
    Plain(goalSetHead \o f.main_goal \o goalSetReason \o f.reason
        \o goalSetTimeline \o f.timeline \o goalSetTail)

\* the fields of the goal: lines 58-60 of the webhook, line 162 of /set-goal
GoalInput(q) == IF q.route = "set-goal" THEN q.input ELSE GoalFields(q.body)

\* the goal step has thrown: the catch of the goal branch (lines 77-80)
\* makes the apology the reply; the catch of /set-goal (lines 190-193)
\* answers 500
GoalThrew(q) ==
    IF q.route = "set-goal" THEN InternalError(q)
    ELSE [q EXCEPT !.responseMessage = Plain(goalApology), !.pc = "sendWhatsAppMessage"]

\* the goal step has ended: line 76 of the webhook, lines 185-189 of
\* /set-goal
GoalDone(q) ==
    IF q.route = "set-goal"
    THEN Respond(q, 200, [status |-> "success", goal |-> q.goal_id,
                          breakdowns |-> q.breakdowns])
    ELSE [q EXCEPT !.responseMessage = goalSetMessage(GoalInput(q)),
                   !.pc = "sendWhatsAppMessage"]

\* a setMainGoal that makes the other goals of the user inactive first
SetMainGoalDeactivating(r, o) ==
    LET q == Event(req[r], "set_goal")
        f == GoalInput(q)
        goal == [id |-> Len(goals) + 1, user_id |-> q.user.id,
                 main_goal |-> f.main_goal, reason |-> f.reason,
                 timeline |-> f.timeline, is_active |-> TRUE]
        others == [i \in DOMAIN goals |->
                      IF goals[i].user_id = q.user.id
                      THEN [goals[i] EXCEPT !.is_active = FALSE] ELSE goals[i]]
    IN /\ q.pc = "setMainGoal"
       /\ goals' = IF o = "ok" THEN Append(others, goal) ELSE goals
       /\ Upd(r, IF o = "ok"
                 THEN Event([q EXCEPT !.goal_id = goal.id,
                                      !.pc = "generateGoalBreakdowns"], "goal_saved")
                 ELSE Event(Event(GoalThrew(q), "goal_failed"), "fault"))
       /\ UNCHANGED <<users, messages, dailyLogs, goalBreakdowns, today, served, fnVars>>

\* lines 64 and 174, DatabaseService.setMainGoal: it throws on a rejected
\* call, on insert.error and on missing data
SetMainGoal(r, o) ==
    LET q == Event(req[r], "set_goal")
        f == GoalInput(q)
        goal == [id |-> Len(goals) + 1, user_id |-> q.user.id,
                 main_goal |-> f.main_goal, reason |-> f.reason,
                 timeline |-> f.timeline, is_active |-> TRUE]
    IN /\ q.pc = "setMainGoal"
       /\ goals' = IF o = "ok" THEN Append(goals, goal) ELSE goals
       /\ Upd(r, IF o = "ok"
                 THEN Event([q EXCEPT !.goal_id = goal.id,
                                      !.pc = "generateGoalBreakdowns"], "goal_saved")
                 ELSE Event(Event(GoalThrew(q), "goal_failed"), "fault"))
       /\ UNCHANGED <<users, messages, dailyLogs, goalBreakdowns, today, served, fnVars>>

\* what a completion of generateGoalBreakdowns can be: the call throws, the
\* text does not parse, or it parses to null, to [] or to a list of items
BreakdownReplies == {"throw", "unparseable", "null", "empty", "array"}

BreakdownItems ==
    << [type |-> "weekly", start_date |-> 1, end_date |-> 1, description |-> <<"a">>],
       [type |-> "monthly", start_date |-> 2, end_date |-> 2, description |-> <<"b">>] >>

\* lines 71-76 and 180-189, with what generateGoalBreakdowns returned:
\* breakdowns.length throws on null; an empty list skips the insert
WithBreakdowns(q, breakdowns) ==
    IF breakdowns = "null" THEN Event(GoalThrew(q), "breakdowns_null")
    ELSE IF breakdowns = "empty" THEN Event(GoalDone(q), "breakdowns_empty")
    ELSE [q EXCEPT !.breakdowns = BreakdownItems, !.pc = "addGoalBreakdowns"]

\* OpenAIService.generateGoalBreakdowns up to its first completion (lines
\* 385-402): a call that throws gives [] (line 425), a text that does not
\* parse leads to the second call
GenerateGoalBreakdowns(r, reply) ==
    LET q == Event([req[r] EXCEPT !.completions = @ + 1], "llm_breakdowns_1")
    IN /\ req[r].pc = "generateGoalBreakdowns"
       /\ Upd(r, IF reply = "throw" THEN WithBreakdowns(q, "empty")
                 ELSE IF reply = "unparseable"
                 THEN Event([q EXCEPT !.pc = "retryGoalBreakdowns"], "unparsed_1")
                 ELSE WithBreakdowns(q, reply))
       /\ UNCHANGED <<dbVars, today, served, fnVars>>

\* a second call that is made again when its text does not parse
RetryGoalBreakdownsAgain(r, reply) ==
    LET q == Event([req[r] EXCEPT !.completions = @ + 1], "llm_breakdowns_2")
    IN /\ req[r].pc = "retryGoalBreakdowns"
       /\ Upd(r, IF reply = "throw" THEN WithBreakdowns(q, "empty")
                 ELSE IF reply = "unparseable" THEN Event(q, "unparsed_2")
                 ELSE WithBreakdowns(q, reply))
       /\ UNCHANGED <<dbVars, today, served, fnVars>>

\* the second completion of generateGoalBreakdowns (lines 403-423): a text
\* that does not parse gives [] (line 422), and so does a call that throws
RetryGoalBreakdowns(r, reply) ==
    LET q == Event([req[r] EXCEPT !.completions = @ + 1], "llm_breakdowns_2")
    IN /\ req[r].pc = "retryGoalBreakdowns"
       /\ Upd(r, IF reply = "throw" THEN WithBreakdowns(q, "empty")
                 ELSE IF reply = "unparseable"
                 THEN WithBreakdowns(Event(q, "unparsed_2"), "empty")
                 ELSE WithBreakdowns(q, reply))
       /\ UNCHANGED <<dbVars, today, served, fnVars>>

\* lines 73 and 182, DatabaseService.addGoalBreakdowns, which throws what
\* the client throws
AddGoalBreakdowns(r, o) ==
    LET q == req[r]
        rows == [i \in DOMAIN q.breakdowns |->
                    [goal_id |-> q.goal_id, item |-> q.breakdowns[i]]]
    IN /\ q.pc = "addGoalBreakdowns"
       /\ goalBreakdowns' = IF o = "ok" THEN goalBreakdowns \o rows ELSE goalBreakdowns
       /\ Upd(r, Faulty(IF o = "throw" THEN GoalThrew(q) ELSE GoalDone(q), o))
       /\ UNCHANGED <<users, messages, dailyLogs, goals, today, served, fnVars>>

(***************************************************************************)
(* The check-in branch (lines 84-129) and the general response.            *)
(***************************************************************************)
\* objects the extraction completion can hold: no field, a blank note, zero
\* hours of sleep, a mood
ExtractedObjects ==
    { [NullCheckin EXCEPT !.isNull = FALSE],
      [NullCheckin EXCEPT !.isNull = FALSE, !.notes = <<" ">>],
      [NullCheckin EXCEPT !.isNull = FALSE,
                          !.sleep_hours = [present |-> TRUE, whole |-> 0, frac |-> <<>>]],
      [NullCheckin EXCEPT !.isNull = FALSE,
                          !.current_mood = <<"t", "i", "r", "e", "d">>] }

\* what the extraction completion can be: the call throws, there is no
\* content, the content is the literal null, it does not parse, it holds
\* an object, or it holds another JSON value: a number, or a string (text)
ExtractionReplies ==
    { [kind |-> k, data |-> NullCheckin, text |-> <<>>] :
        k \in {"throw", "empty", "null", "unparseable", "number"} }
    \cup { [kind |-> "object", data |-> d, text |-> <<>>] : d \in ExtractedObjects }
    \cup { [kind |-> "string", data |-> NullCheckin, text |-> t] :
             t \in { <<" ">>, <<"n", "o", "n", "e">> } }

\* lines 166-168: some value is truthy and, if a string, not blank
hasContent(data) ==
    \/ data.sleep_hours.present
       /\ (data.sleep_hours.whole # 0 \/ data.sleep_hours.frac # <<>>)
    \/ \E v \in {data.current_mood, data.current_energy_level, data.notes} :
          trim(v) # <<>>

\* lines 166-168 when JSON.parse gave a string: Object.values of a string
\* are its characters, each a string of its own
hasContentString(text) == \E k \in DOMAIN text : trim(<<text[k]>>) # <<>>

\* lines 154-176 of parseMorningCheckinFlexible, after the completion.  A
\* number has no values and is dropped; a string that passes line 170 is
\* returned as the check-in, and has none of the fields of a check-in.
extractedCheckin(reply) ==
    IF reply.kind = "object"
    THEN IF hasContent(reply.data) THEN reply.data ELSE NullCheckin
    ELSE IF reply.kind = "string" /\ hasContentString(reply.text)
    THEN [NullCheckin EXCEPT !.isNull = FALSE]
    ELSE NullCheckin

\* lines 87-90 and 132-137: what the handler does with the check-in that
\* parseMorningCheckinFlexible returned
Extracted(r, reply) ==
    LET q == Event(req[r], "llm_extract")
        checkin == extractedCheckin(reply)
    IN /\ req[r].pc = "parseMorningCheckinFlexible"
       /\ Upd(r, Faulty(IF checkin.isNull
                        THEN [q EXCEPT !.branch = "general",
                                       !.pc = "generateGeneralResponse"]
                        ELSE [q EXCEPT !.branch = "checkin", !.checkin = checkin,
                                       !.today = today, !.pc = "createDailyLog"],
                        IF reply.kind = "throw" THEN "throw" ELSE "ok"))
       /\ UNCHANGED <<dbVars, today, served>>

\* line 87, parseMorningCheckinFlexible past its pre-filter: the LLM call
ParseMorningCheckinFlexible(r, reply) ==
    /\ Extracted(r, reply)
    /\ UNCHANGED fnVars

\* line 93, DatabaseService.createDailyLog up to its write: the lookup of
\* the row of (user, date)
CreateDailyLogSelect(r, o) ==
    LET q == req[r]
    IN /\ q.pc = "createDailyLog"
       /\ Upd(r, IF o = "ok"
                 THEN [q EXCEPT !.existing = DailyLogId(q.user.id, q.today),
                                !.pc = "writeDailyLog"]
                 ELSE IF o = "throw"
                 THEN InternalError(Event(Event(q, "log_failed"), "fault"))
                 ELSE Event(Event([q EXCEPT !.existing = 0, !.pc = "writeDailyLog"],
                                  "log_failed"), "fault"))
       /\ UNCHANGED <<dbVars, today, served, fnVars>>

\* the write of createDailyLog: an update of the row found, else an
\* insert.  daily_logs is UNIQUE(user_id, date): an insert of a pair that
\* has a row resolves with an error, which nothing reads.
CreateDailyLogWrite(r, o) ==
    LET q == req[r]
        logData == [id |-> Len(dailyLogs) + 1, user_id |-> q.user.id,
                    date |-> q.today, checkin_json |-> q.checkin]
        rejected == \E i \in DOMAIN dailyLogs :
                        /\ dailyLogs[i].user_id = logData.user_id
                        /\ dailyLogs[i].date = logData.date
        written == o = "ok" /\ (q.existing # 0 \/ ~rejected)
    IN /\ q.pc = "writeDailyLog"
       /\ dailyLogs' =
             IF ~written THEN dailyLogs
             ELSE IF q.existing # 0
             THEN [dailyLogs EXCEPT ![q.existing] = [logData EXCEPT !.id = q.existing]]
             ELSE Append(dailyLogs, logData)
       /\ Upd(r, IF o = "throw"
                 THEN InternalError(Event(Event(q, "log_failed"), "fault"))
                 ELSE IF o = "error"
                 THEN Event(Event([q EXCEPT !.pc = "generateDailyPlan"], "log_failed"),
                            "fault")
                 ELSE IF written
                 THEN Event([q EXCEPT !.pc = "generateDailyPlan"],
                            IF q.existing # 0
                               /\ dailyLogs[q.existing].checkin_json # q.checkin
                            THEN "log_replaced" ELSE "log_written")
                 ELSE Event([q EXCEPT !.pc = "generateDailyPlan"], "log_rejected"))
       /\ UNCHANGED <<users, messages, goals, goalBreakdowns, today, served, fnVars>>

\* lines 97-129: the reads of the context and generateDailyPlan.  The reads
\* return [] when they fail, but getGoalBreakdowns returns res.data, which
\* is null when the client resolves with an error: line 110 calls filter on
\* it and throws.
GenerateDailyPlan(r, goalsRead, breakdownsRead, reply) ==
    LET q == Event(req[r], "daily_plan")
        g == Generation(q, reply)
        activeGoals == IF goalsRead = "ok" THEN ActiveGoals(q.user.id) ELSE <<>>
        dailyPlan == generated(reply, dailyPlanEmpty, dailyPlanApology)
        responseMessage == [dailyPlan EXCEPT !.head = dailyPlanHead \o @]
    IN /\ q.pc = "generateDailyPlan"
       /\ Upd(r, IF activeGoals # <<>> /\ breakdownsRead = "error"
                 THEN Event(InternalError(q), "fault")
                 ELSE Faulty([g EXCEPT !.responseMessage = responseMessage,
                                       !.pc = "sendWhatsAppMessage"],
                             IF reply.threw \/ goalsRead # "ok" THEN "throw" ELSE "ok"))
       /\ UNCHANGED <<dbVars, today, served, fnVars>>

\* a general response whose failure ends the request
GenerateGeneralResponseThrows(r, reply) ==
    LET q == Generation(req[r], reply)
    IN /\ q.pc = "generateGeneralResponse"
       /\ Upd(r, IF reply.threw THEN Event(InternalError(q), "fault")
                 ELSE Event([q EXCEPT !.responseMessage =
                                         generated(reply, generalFallback, generalFallback),
                                      !.pc = "sendWhatsAppMessage"],
                            "general_response"))
       /\ UNCHANGED <<dbVars, today, served, fnVars>>

\* lines 134-137: getActiveGoals (which never throws) and
\* generateGeneralResponse, whose two fixed texts are the same
GenerateGeneralResponse(r, reply) ==
    LET q == Generation(req[r], reply)
    IN /\ q.pc = "generateGeneralResponse"
       /\ Upd(r, Faulty(Event([q EXCEPT !.responseMessage =
                                           generated(reply, generalFallback, generalFallback),
                                        !.pc = "sendWhatsAppMessage"],
                              "general_response"),
                        IF reply.threw THEN "throw" ELSE "ok"))
       /\ UNCHANGED <<dbVars, today, served, fnVars>>

(***************************************************************************)
(* Send and log of the reply (lines 141-151).                              *)
(***************************************************************************)
\* line 142
SendReply(r) ==
    LET q == req[r]
    IN /\ q.pc = "sendWhatsAppMessage"
       /\ \E result \in sendResults(q.from, Chars(q.responseMessage)) :
             Upd(r, IF result.sid # 0 THEN [Sent(q, result) EXCEPT !.pc = "logReply"]
                    ELSE Respond(Sent(q, result), 200,
                                 [status |-> "success", message_sid |-> 0]))
       /\ UNCHANGED <<dbVars, today, served, fnVars>>

\* a reply that is answered for and not logged
LogReplyUnlogged(r, o) ==
    /\ req[r].pc = "logReply"
    /\ Upd(r, Respond(req[r], 200,
                      [status |-> "success", message_sid |-> req[r].messageSid]))
    /\ UNCHANGED <<dbVars, today, served, fnVars>>

\* lines 144-151
LogReply(r, o) ==
    LET q == req[r]
    IN /\ q.pc = "logReply"
       /\ messages' = IF o = "ok"
                      THEN Append(messages, [user_id |-> q.user.id,
                                             direction |-> "outbound",
                                             body |-> q.responseMessage])
                      ELSE messages
       /\ Upd(r, IF o = "throw" THEN Event(InternalError(q), "fault")
                 ELSE Respond(IF o = "ok" THEN Event(q, "outbound_logged")
                              ELSE Event(q, "fault"),
                              200, [status |-> "success", message_sid |-> q.messageSid]))
       /\ UNCHANGED <<users, dailyLogs, goals, goalBreakdowns, today, served, fnVars>>

\* the calendar day changes.  The handler reads the clock once (line 92),
\* so a change while a request is served is a change before or after it;
\* after the last request nothing reads the clock.
Tick ==
    /\ today < MaxDay
    /\ served < MaxRequests
    /\ \A r \in Reqs : req[r].pc \in {"idle", "done"}
    /\ today' = today + 1
    /\ UNCHANGED <<dbVars, req, served, fnVars>>

(***************************************************************************)
(* Specification: requests are served one at a time, in slot 1.            *)
(***************************************************************************)
Init ==
    /\ users = <<>>
    /\ messages = <<>>
    /\ dailyLogs = <<>>
    /\ goals = <<>>
    /\ goalBreakdowns = <<>>
    /\ today = 1
    /\ req = [r \in Reqs |-> IdleRequest]
    /\ served = 0
    /\ fnArg = <<>>
    /\ fnRes = <<>>

Step(r) ==
    \/ \E o \in StorageOutcomes :
          \/ GetUserByPhone(r, o)
          \/ CreateUserSelect(r, o)
          \/ CreateUserInsert(r, o)
          \/ LogInbound(r, o)
          \/ LogReport(r, o)
          \/ SetMainGoal(r, o)
          \/ AddGoalBreakdowns(r, o)
          \/ CreateDailyLogSelect(r, o)
          \/ CreateDailyLogWrite(r, o)
          \/ LogReply(r, o)
    \/ \E reply \in LLMReplies :
          \/ GenerateWeeklyReport(r, reply)
          \/ GenerateGeneralResponse(r, reply)
          \/ \E goalsRead \in {"ok", "throw"}, breakdownsRead \in StorageOutcomes :
                GenerateDailyPlan(r, goalsRead, breakdownsRead, reply)
    \/ \E reply \in BreakdownReplies :
          \/ GenerateGoalBreakdowns(r, reply)
          \/ RetryGoalBreakdowns(r, reply)
    \/ \E reply \in ExtractionReplies : ParseMorningCheckinFlexible(r, reply)
    \/ SendReport(r)
    \/ SendReply(r)

Next ==
    \/ \E requestData \in RequestPayloads : Receive(1, requestData)
    \/ Step(1)
    \/ Tick

Spec == Init /\ [][Next]_vars

(***************************************************************************)
(* Specification of two requests served at the same time: the steps of the *)
(* two runs of the handler interleave at their awaits.  The payloads are   *)
(* plain messages of one phone, written in two ways.                       *)
(***************************************************************************)
RacePayloads ==
    { [From |-> Sender1, Body |-> GeneralBody, ProfileName |-> <<" ", "A", "l">>],
      [From |-> Sender2, Body |-> GeneralBody] }

StepRace(r) ==
    \/ \E o \in StorageOutcomes :
          \/ GetUserByPhone(r, o)
          \/ CreateUserSelect(r, o)
          \/ CreateUserInsert(r, o)
          \/ LogInbound(r, o)
          \/ LogReply(r, o)
    \/ \E reply \in LLMReplies : GenerateGeneralResponse(r, reply)
    \/ SendReply(r)

NextRace ==
    \E r \in Reqs :
        \/ \E requestData \in RacePayloads : Receive(r, requestData)
        \/ StepRace(r)

SpecRace == Init /\ [][NextRace]_vars

(***************************************************************************)
(* Specification of the extraction: messages that are no command, no goal  *)
(* and no strict check-in, served one at a time by the whole handler.      *)
(* fnRes keeps what the last completion of parseMorningCheckinFlexible was *)
(* (not a variable of the code).                                           *)
(***************************************************************************)
ExtractionPayloads ==
    { [From |-> Sender1, Body |-> b, ProfileName |-> <<" ", "A", "l">>] :
        b \in {FlexibleBody, GeneralBody} }

InitExtraction ==
    /\ users = <<>>
    /\ messages = <<>>
    /\ dailyLogs = <<>>
    /\ goals = <<>>
    /\ goalBreakdowns = <<>>
    /\ today = 1
    /\ req = [r \in Reqs |-> IdleRequest]
    /\ served = 0
    /\ fnArg = <<>>
    /\ fnRes = [kind |-> "none"]

ExtractWith(r, reply) ==
    /\ Extracted(r, reply)
    /\ fnRes' = [kind |-> reply.kind, data |-> reply.data, text |-> reply.text]
    /\ UNCHANGED fnArg

StepExtraction(r) ==
    \/ \E o \in StorageOutcomes :
          \/ GetUserByPhone(r, o)
          \/ CreateUserSelect(r, o)
          \/ CreateUserInsert(r, o)
          \/ LogInbound(r, o)
          \/ CreateDailyLogSelect(r, o)
          \/ CreateDailyLogWrite(r, o)
          \/ LogReply(r, o)
    \/ \E reply \in LLMReplies :
          \/ GenerateGeneralResponse(r, reply)
          \/ \E goalsRead \in {"ok", "throw"}, breakdownsRead \in StorageOutcomes :
                GenerateDailyPlan(r, goalsRead, breakdownsRead, reply)
    \/ \E reply \in ExtractionReplies : ExtractWith(r, reply)
    \/ SendReply(r)

NextExtraction ==
    \/ \E requestData \in ExtractionPayloads : Receive(1, requestData)
    \/ StepExtraction(1)

SpecExtraction == InitExtraction /\ [][NextExtraction]_vars

(***************************************************************************)
(* Specification of check-ins saved at the same time: the handler reaches  *)
(* line 93 in two requests, for the same user or not, and the two runs of  *)
(* createDailyLog interleave between the lookup and the write.  A slot is  *)
(* a run of lines 91-94; it stands at "generateDailyPlan" when             *)
(* createDailyLog has returned and at "done" when it has thrown.           *)
(***************************************************************************)
MaxCalls == 3   \* runs of createDailyLog

\* the check-ins of the two bodies in the strict form
RaceCheckins == {parseMorningCheckin(StrictBody), parseMorningCheckin(LaterStrictBody)}

InitDailyLogRace ==
    /\ users = << [id |-> 1, phone |-> normalizePhone(Sender1), name |-> <<"A", "l">>],
                  [id |-> 2, phone |-> normalizePhone(Sender3), name |-> <<>>] >>
    /\ messages = <<>>
    /\ dailyLogs = <<>>
    /\ goals = <<>>
    /\ goalBreakdowns = <<>>
    /\ today = 1
    /\ req = [r \in Reqs |-> IdleRequest]
    /\ served = 0
    /\ fnArg = <<>>
    /\ fnRes = <<>>

\* lines 91-93: if (checkin), today, and the call of createDailyLog
CallCreateDailyLog(r, userId, checkin) ==
    /\ req[r].pc \in {"idle", "generateDailyPlan", "done"}
    /\ served < MaxCalls
    /\ served' = served + 1
    /\ Upd(r, [IdleRequest EXCEPT !.user = users[userId], !.branch = "checkin",
                                  !.checkin = checkin, !.today = today,
                                  !.pc = "createDailyLog"])
    /\ UNCHANGED <<dbVars, today, fnVars>>

\* the calendar day changes
NextDay ==
    /\ today < MaxDay
    /\ today' = today + 1
    /\ UNCHANGED <<dbVars, req, served, fnVars>>

NextDailyLogRace ==
    \/ \E r \in Reqs :
          \/ \E userId \in DOMAIN users, checkin \in RaceCheckins :
                CallCreateDailyLog(r, userId, checkin)
          \/ \E o \in StorageOutcomes :
                CreateDailyLogSelect(r, o) \/ CreateDailyLogWrite(r, o)
    \/ NextDay

SpecDailyLogRace == InitDailyLogRace /\ [][NextDailyLogRace]_vars

(***************************************************************************)
(* Specification of the goals: goal declarations sent to the WhatsApp      *)
(* webhook and requests of POST /webhooks/set-goal (webhooks.ts lines      *)
(* 159-194), served one at a time.                                         *)
(***************************************************************************)
GoalText == <<"r", "u", "n">>

SetGoalPayloads ==
    { [phone |-> Sender1, main_goal |-> GoalText, reason |-> <<"f", "i", "t">>,
       timeline |-> <<"M", "a", "y">>],
      [phone |-> Sender2, main_goal |-> GoalText],
      [phone |-> Sender1],
      [main_goal |-> GoalText] }

GoalPayloads ==
    { [From |-> Sender1, Body |-> GoalBody, ProfileName |-> <<" ", "A", "l">>],
      [From |-> Sender3, Body |-> GoalCheckinBody] }

\* lines 160-165 of /set-goal: the fields of the body and their validation
ReceiveSetGoal(r, requestData) ==
    LET q == [IdleRequest EXCEPT !.route = "set-goal",
                                 !.from = Field(requestData, "phone"),
                                 !.input = [main_goal |-> Field(requestData, "main_goal"),
                                            reason |-> Field(requestData, "reason"),
                                            timeline |-> Field(requestData, "timeline")],
                                 !.usersBefore = Len(users)]
    IN /\ req[r].pc \in {"idle", "done"}
       /\ served < MaxRequests
       /\ served' = served + 1
       /\ IF q.from = <<>> \/ q.input.main_goal = <<>>
          THEN Upd(r, Respond(q, 400, [error |-> "phone and main_goal are required"]))
          ELSE Upd(r, [q EXCEPT !.pc = "getUserByPhone"])
       /\ UNCHANGED <<dbVars, today, fnVars>>

StepGoals(r) ==
    \/ \E o \in StorageOutcomes :
          \/ GetUserByPhone(r, o)
          \/ CreateUserSelect(r, o)
          \/ CreateUserInsert(r, o)
          \/ LogInbound(r, o)
          \/ SetMainGoal(r, o)
          \/ AddGoalBreakdowns(r, o)
          \/ LogReply(r, o)
    \/ \E reply \in BreakdownReplies :
          \/ GenerateGoalBreakdowns(r, reply)
          \/ RetryGoalBreakdowns(r, reply)
    \/ SendReply(r)

NextGoals ==
    \/ \E requestData \in GoalPayloads : Receive(1, requestData)
    \/ \E requestData \in SetGoalPayloads : ReceiveSetGoal(1, requestData)
    \/ StepGoals(1)

SpecGoals == Init /\ [][NextGoals]_vars

(***************************************************************************)
(* Specifications of the pure functions: the input is drawn in the initial *)
(* state and an action applies the function.                               *)
(***************************************************************************)
InitStore ==
    /\ users = <<>>
    /\ messages = <<>>
    /\ dailyLogs = <<>>
    /\ goals = <<>>
    /\ goalBreakdowns = <<>>
    /\ today = 1
    /\ req = [r \in Reqs |-> IdleRequest]
    /\ served = 0

\* normalizePhone, applied to an input and then to its own results
InitNormalize ==
    /\ InitStore
    /\ fnArg \in PhoneInputs
    /\ fnRes = <<>>

ApplyNormalize ==
    /\ Len(fnRes) < MaxApplications
    /\ fnRes' = Append(fnRes, normalizePhone(IF fnRes = <<>> THEN fnArg
                                             ELSE fnRes[Len(fnRes)]))
    /\ UNCHANGED <<dbVars, today, req, served, fnArg>>

SpecNormalize == InitNormalize /\ [][ApplyNormalize]_vars

\* texts of n characters "a", with a space at the positions in spaces
Filled(n, spaces) == [i \in 1..n |-> IF i \in spaces THEN " " ELSE "a"]

SendLengths ==
    {10, MAX_MESSAGE_LENGTH, MAX_MESSAGE_LENGTH + 1, 2 * MAX_MESSAGE_LENGTH,
     2 * MAX_MESSAGE_LENGTH + 1}

\* no space, a space early on, spaces around 80% of the limit and around
\* the limit, and spaces in both halves of a long text
SendSpaces ==
    { {}, {5}, {1280}, {1281}, {1282}, {MAX_MESSAGE_LENGTH},
      {MAX_MESSAGE_LENGTH + 1}, {1500, 3000} }

SendTexts == {Filled(n, spaces) : n \in SendLengths, spaces \in SendSpaces}

\* sendWhatsAppMessage, applied to a text: fnRes is what it does
InitSend ==
    /\ InitStore
    /\ fnArg \in SendTexts
    /\ fnRes = [calls |-> <<>>, sid |-> 0]

ApplySend ==
    /\ fnRes.calls = <<>>
    /\ \E to \in Senders : fnRes' \in sendResults(to, fnArg)
    /\ UNCHANGED <<dbVars, today, req, served, fnArg>>

SpecSend == InitSend /\ [][ApplySend]_vars

(***************************************************************************)
(* TwilioService.splitMessage one iteration of its loop at a time (lines   *)
(* 95-119).  fnArg is the call (the text and maxLength); fnRes holds the   *)
(* position, remainingMessage, parts, and for every cut made the text it   *)
(* was made in and its splitIndex.                                         *)
(***************************************************************************)
MaxSmallText == 6   \* characters of the texts split at a small limit

\* texts of n characters "a"; the positions in marks hold the character c
Marked(n, marks, c) == [i \in 1..n |-> IF i \in marks THEN c ELSE "a"]

\* texts above the limit of the code, with a space or a line break early
\* on, around 80% of the limit, around the limit, and in both halves
LongTexts ==
    { Marked(n, marks, c) :
        n \in {MAX_MESSAGE_LENGTH + 1, 2 * MAX_MESSAGE_LENGTH, 2 * MAX_MESSAGE_LENGTH + 1},
        marks \in { {}, {5}, {1280}, {1281}, {1282}, {1500}, {MAX_MESSAGE_LENGTH},
                    {MAX_MESSAGE_LENGTH + 1}, {1500, 3000}, {1601, 1602, 1603} },
        c \in {" ", "\n"} }

\* every text of letters and spaces up to MaxSmallText characters
SmallTexts ==
    UNION { [1..n -> {"a", " "}] : n \in 0..MaxSmallText }

\* texts split at a limit of ten characters, with a space around 80% of
\* the limit and around the limit
MediumTexts ==
    { Marked(n, marks, " ") :
        n \in {11, 21},
        marks \in { {}, {8}, {9}, {10}, {11}, {12}, {9, 19}, {1, 2, 11, 12} } }

\* the calls with a short text
ShortCalls ==
    { [message |-> m, maxLength |-> l] : m \in SmallTexts, l \in {1, 2, 3, 5} }
    \cup { [message |-> m, maxLength |-> 10] : m \in MediumTexts }

SplitCalls ==
    { [message |-> m, maxLength |-> MAX_MESSAGE_LENGTH] : m \in LongTexts }
    \cup ShortCalls

InitSplit ==
    /\ InitStore
    /\ fnArg \in SplitCalls
    /\ fnRes = [pc |-> "loop", remainingMessage |-> fnArg.message, parts |-> <<>>,
                cuts |-> <<>>]

\* an iteration that cuts at the last space wherever it is
SplitIterationAnySpace ==
    LET remainingMessage == fnRes.remainingMessage
        maxLength == fnArg.maxLength
        lastSpaceIndex == lastIndexOf(remainingMessage, maxLength)
        splitIndex == IF lastSpaceIndex > 0 THEN lastSpaceIndex ELSE maxLength
    IN /\ fnRes.pc = "loop"
       /\ Len(remainingMessage) > 0
       /\ fnRes' =
            IF Len(remainingMessage) <= maxLength
            THEN [fnRes EXCEPT !.parts = Append(@, remainingMessage), !.pc = "done"]
            ELSE [fnRes EXCEPT
                    !.parts = Append(@, trim(substring(remainingMessage, 0, splitIndex))),
                    !.remainingMessage = trim(substring(remainingMessage, splitIndex,
                                                        Len(remainingMessage))),
                    !.cuts = Append(@, [text |-> remainingMessage,
                                        splitIndex |-> splitIndex])]
       /\ UNCHANGED <<dbVars, today, req, served, fnArg>>

\* an iteration that looks for the last space of the whole text
SplitIterationUnbounded ==
    LET remainingMessage == fnRes.remainingMessage
        maxLength == fnArg.maxLength
        lastSpaceIndex == lastIndexOf(remainingMessage, Len(remainingMessage))
        splitIndex == IF 10 * lastSpaceIndex > 8 * maxLength
                      THEN lastSpaceIndex ELSE maxLength
    IN /\ fnRes.pc = "loop"
       /\ Len(remainingMessage) > 0
       /\ fnRes' =
            IF Len(remainingMessage) <= maxLength
            THEN [fnRes EXCEPT !.parts = Append(@, remainingMessage), !.pc = "done"]
            ELSE [fnRes EXCEPT
                    !.parts = Append(@, trim(substring(remainingMessage, 0, splitIndex))),
                    !.remainingMessage = trim(substring(remainingMessage, splitIndex,
                                                        Len(remainingMessage))),
                    !.cuts = Append(@, [text |-> remainingMessage,
                                        splitIndex |-> splitIndex])]
       /\ UNCHANGED <<dbVars, today, req, served, fnArg>>

\* lines 99-116: one iteration of the loop
SplitIteration ==
    LET remainingMessage == fnRes.remainingMessage
        maxLength == fnArg.maxLength
        lastSpaceIndex == lastIndexOf(remainingMessage, maxLength)
        splitIndex == IF 10 * lastSpaceIndex > 8 * maxLength
                      THEN lastSpaceIndex ELSE maxLength
    IN /\ fnRes.pc = "loop"
       /\ Len(remainingMessage) > 0
       /\ fnRes' =
            IF Len(remainingMessage) <= maxLength
            THEN [fnRes EXCEPT !.parts = Append(@, remainingMessage), !.pc = "done"]
            ELSE [fnRes EXCEPT
                    !.parts = Append(@, trim(substring(remainingMessage, 0, splitIndex))),
                    !.remainingMessage = trim(substring(remainingMessage, splitIndex,
                                                        Len(remainingMessage))),
                    !.cuts = Append(@, [text |-> remainingMessage,
                                        splitIndex |-> splitIndex])]
       /\ UNCHANGED <<dbVars, today, req, served, fnArg>>

\* lines 99 and 118: nothing remains
SplitReturn ==
    /\ fnRes.pc = "loop"
    /\ Len(fnRes.remainingMessage) = 0
    /\ fnRes' = [fnRes EXCEPT !.pc = "done"]
    /\ UNCHANGED <<dbVars, today, req, served, fnArg>>

SpecSplit == InitSplit /\ [][SplitIteration \/ SplitReturn]_vars

\* the calls with a short text, under the fairness of sequential code: an
\* iteration that can run does run
InitSplitShort ==
    /\ InitStore
    /\ fnArg \in ShortCalls
    /\ fnRes = [pc |-> "loop", remainingMessage |-> fnArg.message, parts |-> <<>>,
                cuts |-> <<>>]

SpecSplitFair ==
    /\ InitSplitShort
    /\ [][SplitIteration \/ SplitReturn]_vars
    /\ WF_vars(SplitIteration \/ SplitReturn)

\* sendWhatsAppMessage call by call (lines 40-93): fnRes holds the position
\* in the method, the bodies to send, the calls of client.messages.create
\* made so far with their outcome, and the value returned (0 is null).  The
\* identifier of a message is the number of the call that sent it.
InitSendLoop ==
    /\ InitStore
    /\ fnArg \in SendTexts
    /\ fnRes = [pc |-> "start", to |-> <<>>, bodies |-> <<>>, calls |-> <<>>, sid |-> 0]

\* lines 42-63: the contact, and the single body or the marked parts
BeginSend ==
    /\ fnRes.pc = "start"
    /\ \E to \in Senders :
          fnRes' = [fnRes EXCEPT !.pc = "create", !.to = toWhatsApp(to),
                                 !.bodies = outboundBodies(fnArg)]
    /\ UNCHANGED <<dbVars, today, req, served, fnArg>>

\* a loop that goes on to the next part after a call failed
CreateMessageContinue(ok) ==
    LET i == Len(fnRes.calls) + 1
        calls == Append(fnRes.calls,
                        [to |-> fnRes.to, body |-> fnRes.bodies[i], ok |-> ok])
    IN /\ fnRes.pc = "create"
       /\ fnRes' = [fnRes EXCEPT !.calls = calls,
                                 !.sid = IF ok THEN i ELSE @,
                                 !.pc = IF i < Len(fnRes.bodies) THEN "delay" ELSE "done"]
       /\ UNCHANGED <<dbVars, today, req, served, fnArg>>

\* lines 52-59 and 72-85: one call of client.messages.create.  A call that
\* throws is caught at line 89 and null is returned; a call that succeeds
\* sets the identifier, and the method returns it after the last part
\* (lines 59, 87).
CreateMessage(ok) ==
    LET i == Len(fnRes.calls) + 1
        calls == Append(fnRes.calls,
                        [to |-> fnRes.to, body |-> fnRes.bodies[i], ok |-> ok])
    IN /\ fnRes.pc = "create"
       /\ fnRes' = IF ~ok
                    THEN [fnRes EXCEPT !.calls = calls, !.sid = 0, !.pc = "done"]
                    ELSE [fnRes EXCEPT !.calls = calls, !.sid = i,
                                       !.pc = IF i < Len(fnRes.bodies) THEN "delay"
                                              ELSE "done"]
       /\ UNCHANGED <<dbVars, today, req, served, fnArg>>

\* lines 81-84: the delay between two parts
Pace ==
    /\ fnRes.pc = "delay"
    /\ fnRes' = [fnRes EXCEPT !.pc = "create"]
    /\ UNCHANGED <<dbVars, today, req, served, fnArg>>

NextSendLoop ==
    \/ BeginSend
    \/ \E ok \in BOOLEAN : CreateMessage(ok)
    \/ Pace

SpecSendLoop == InitSendLoop /\ [][NextSendLoop]_vars

\* The check-in extractor (webhooks.ts lines 84-88): parseMorningCheckin and,
\* when it gives null, parseMorningCheckinFlexible.  A message in the strict
\* form is written from its parts: the hours of sleep (digits, digits after
\* the point, the letter h or not), the digits of mood and of energy, and
\* the text after "Notes:".
StrictInputs ==
    { [strict |-> TRUE, before |-> b, sleep |-> sl, mood |-> m, energy |-> e, notes |-> n] :
        b \in { <<>>, <<"h", "i", " ">> },
        sl \in { [digits |-> <<"7">>, frac |-> <<>>, h |-> TRUE],
                 [digits |-> <<"7">>, frac |-> <<>>, h |-> FALSE],
                 [digits |-> <<"7">>, frac |-> <<"5">>, h |-> TRUE],
                 [digits |-> <<"0", "6">>, frac |-> <<"5", "0">>, h |-> FALSE] },
        m \in { <<"8">>, <<"1", "0">>, <<"0", "8">> },
        e \in { <<"6">>, <<"0">> },
        n \in { <<" ", "F", "e", "e", "l", "i", "n", "g", " ", "g", "o", "o", "d", " ", "t", "o", "d", "a", "y">>,
                <<" ", " ", "o", "k", " ", " ">>,
                <<" ", "u", "p", " ", "\n", "l", "a", "t", "e">> } }

\* messages that are not in the strict form
OtherInputs ==
    { [strict |-> FALSE, message |-> m] :
        m \in { FlexibleBody, GeneralBody, GoalBody,
                <<"S", "l", "e", "e", "p", " ", "7", "h", " ", "|", " ", "M", "o", "o", "d", " ", "g", "o", "o", "d", " ", "|", " ", "E", "n", "e", "r", "g", "y", " ", "6", " ", "|", " ", "N", "o", "t", "e", "s", ":", " ", "x">>,
                <<"S", "l", "e", "e", "p", " ", "h", " ", "|", " ", "M", "o", "o", "d", " ", "8", " ", "|", " ", "E", "n", "e", "r", "g", "y", " ", "6", " ", "|", " ", "N", "o", "t", "e", "s", ":", " ", "x">> } }

\* messages that are not in the strict form, with the classes of signals
\* of the pre-filter they hold (keyword: a keyword of line 80 anywhere in
\* the text; time, reflection: a word or phrase of lines 89-103)
SignalInputs ==
    { [strict |-> FALSE, signals |-> {},
       message |-> <<"h", "e", "l", "l", "o", " ", "t", "h", "e", "r", "e">>],
      [strict |-> FALSE, signals |-> {},
       message |-> <<"w", "a", "s", "p">>],
      [strict |-> FALSE, signals |-> {},
       message |-> <<"G", "o", "a", "l", ":", " ", "r", "u", "n">>],
      [strict |-> FALSE, signals |-> {"keyword"},
       message |-> <<"m", "y", " ", "r", "o", "u", "t", "i", "n", "e">>],
      [strict |-> FALSE, signals |-> {"keyword"},
       message |-> <<"a", "s", "l", "e", "e", "p">>],
      [strict |-> FALSE, signals |-> {"time"},
       message |-> <<"I", " ", "w", "o", "k", "e", " ", "u", "p">>],
      [strict |-> FALSE, signals |-> {"reflection"},
       message |-> <<"f", "e", "l", "t", " ", "o", "k">>],
      [strict |-> FALSE, signals |-> {"reflection"},
       message |-> <<"g", "o", "o", "d">>],
      [strict |-> FALSE, signals |-> {"keyword", "time", "reflection"},
       message |-> <<"T", "O", "D", "A", "Y", " ", "w", "a", "s", " ", "g", "o", "o", "d">>] }

\* the text of a message
Message(input) ==
    IF ~input.strict THEN input.message
    ELSE input.before \o <<"S", "l", "e", "e", "p", " ">> \o input.sleep.digits
         \o (IF input.sleep.frac = <<>> THEN <<>> ELSE <<".">> \o input.sleep.frac)
         \o (IF input.sleep.h THEN <<"h">> ELSE <<>>)
         \o <<" ", "|", " ", "M", "o", "o", "d", " ">> \o input.mood \o <<" ", "|", " ", "E", "n", "e", "r", "g", "y", " ">> \o input.energy
         \o <<" ", "|", " ", "N", "o", "t", "e", "s", ":">> \o input.notes

InitCheckin ==
    /\ InitStore
    /\ fnArg \in StrictInputs \cup OtherInputs \cup SignalInputs
    /\ fnRes = [pc |-> "parseMorningCheckin", checkin |-> NullCheckin, llm |-> 0]

\* line 84
ApplyParseMorningCheckin ==
    LET checkin == parseMorningCheckin(Message(fnArg))
    IN /\ fnRes.pc = "parseMorningCheckin"
       /\ fnRes' = [fnRes EXCEPT !.checkin = checkin,
                                 !.pc = IF checkin.isNull
                                        THEN "parseMorningCheckinFlexible" ELSE "done"]
       /\ UNCHANGED <<dbVars, today, req, served, fnArg>>

\* line 87, parseMorningCheckinFlexible: the strict parser again, the
\* pre-filter, and the completion (llm counts the completions asked for)
ApplyParseMorningCheckinFlexible(reply) ==
    LET strict == parseMorningCheckin(Message(fnArg))
    IN /\ fnRes.pc = "parseMorningCheckinFlexible"
       /\ fnRes' = IF ~strict.isNull
                    THEN [fnRes EXCEPT !.checkin = strict, !.pc = "done"]
                    ELSE IF ~isLikelyCheckin(Message(fnArg))
                    THEN [fnRes EXCEPT !.pc = "done"]
                    ELSE [fnRes EXCEPT !.checkin = extractedCheckin(reply),
                                       !.llm = @ + 1, !.pc = "done"]
       /\ UNCHANGED <<dbVars, today, req, served, fnArg>>

NextCheckin ==
    \/ ApplyParseMorningCheckin
    \/ \E reply \in ExtractionReplies : ApplyParseMorningCheckinFlexible(reply)

SpecCheckin == InitCheckin /\ [][NextCheckin]_vars

(***************************************************************************)
(* The goal declaration of webhooks.ts lines 51-60 applied to one          *)
(* declaration written in its two forms: fnArg holds the three texts and   *)
(* the spacing, fnRes the fields read from each form.                      *)
(***************************************************************************)
\* texts of a field: plain, with a space, a bar or a line break inside, and
\* with whitespace around
FieldTexts ==
    { <<"r", "u", "n">>,
      <<"r", "u", "n", " ", "5", "k">>,
      <<"a", "|", "b">>,
      <<"u", "p", "\n", "h", "i", "l", "l">>,
      <<" ", "f", "i", "t", " ">>,
      <<"G", "o", "a", "l">> }

GoalFormInputs == [X : FieldTexts, Y : FieldTexts, Z : FieldTexts, spaced : BOOLEAN]

\* Goal: X | Reason: Y | Timeline: Z  (line 48)
PipeForm(input) ==
    LET sp == IF input.spaced THEN <<" ">> ELSE <<>>
    IN <<"G", "o", "a", "l", ":">> \o sp \o input.X \o sp \o <<"|">> \o sp
       \o <<"R", "e", "a", "s", "o", "n", ":">> \o sp \o input.Y \o sp \o <<"|">> \o sp
       \o <<"T", "i", "m", "e", "l", "i", "n", "e", ":">> \o sp \o input.Z

\* Goal: X\nReason: Y\nTimeline: Z  (line 50)
LineForm(input) ==
    LET sp == IF input.spaced THEN <<" ">> ELSE <<>>
    IN <<"G", "o", "a", "l", ":">> \o sp \o input.X \o <<"\n">>
       \o <<"R", "e", "a", "s", "o", "n", ":">> \o sp \o input.Y \o <<"\n">>
       \o <<"T", "i", "m", "e", "l", "i", "n", "e", ":">> \o sp \o input.Z

\* lines 52-60: the match and the trimmed groups
goalFieldsOf(goalMatch) ==
    [ok |-> goalMatch.ok, main_goal |-> trim(goalMatch.g1),
     reason |-> trim(goalMatch.g2), timeline |-> trim(goalMatch.g3)]

NoFields == [read |-> FALSE]

InitGoalForms ==
    /\ InitStore
    /\ fnArg \in GoalFormInputs
    /\ fnRes = [pipe |-> NoFields, lines |-> NoFields]

ApplyPipeForm ==
    /\ ~fnRes.pipe.read
    /\ fnRes' = [fnRes EXCEPT !.pipe = [read |-> TRUE,
                                         fields |-> goalFieldsOf(goalPattern(PipeForm(fnArg)))]]
    /\ UNCHANGED <<dbVars, today, req, served, fnArg>>

ApplyLineForm ==
    /\ ~fnRes.lines.read
    /\ fnRes' = [fnRes EXCEPT !.lines = [read |-> TRUE,
                                          fields |-> goalFieldsOf(goalPattern(LineForm(fnArg)))]]
    /\ UNCHANGED <<dbVars, today, req, served, fnArg>>

SpecGoalForms == InitGoalForms /\ [][ApplyPipeForm \/ ApplyLineForm]_vars

(***************************************************************************)
(* generateWeeklyReport (services/weeklyReport): the numbers of the summary *)
(* it hands to the LLM.  A date is the number of its day; a payload that   *)
(* is null is NullCheckin.                                                 *)
(***************************************************************************)
ReportDay == 14

\* Math.round(n / d) for natural n and positive d
MathRound(n, d) == (2 * n + d) \div (2 * d)

\* .order('date', {ascending: true})
RECURSIVE OrderByDate(_)
OrderByDate(rows) ==
    IF rows = {} THEN <<>>
    ELSE LET first == CHOOSE x \in rows : \A y \in rows : x.date <= y.date
         IN <<first>> \o OrderByDate(rows \ {first})

\* DatabaseService.getDailyLogsInRange: [] when the call fails
getDailyLogsInRange(userId, startDate, endDate, o) ==
    IF o # "ok" THEN <<>>
    ELSE OrderByDate({dailyLogs[i] : i \in {j \in DOMAIN dailyLogs :
                                              /\ dailyLogs[j].user_id = userId
                                              /\ dailyLogs[j].date >= startDate
                                              /\ dailyLogs[j].date <= endDate}})

\* a count that takes every log, with a payload or not
countCheckinsAll(logs) == Len(logs)

\* lines 40-46
countCheckins(logs) ==
    Cardinality({i \in DOMAIN logs : ~logs[i].checkin_json.isNull})

\* lines 59-60: the first log of the date is there and has a payload
checkedIn(logs, date) ==
    LET found == {k \in DOMAIN logs : logs[k].date = date}
    IN found # {} /\ ~logs[Min(found)].checkin_json.isNull

\* a streak that is never reset: the days with a check-in, summed
longestStreakSummed(logs, weekEnd) ==
    Cardinality({i \in 0..6 : checkedIn(logs, weekEnd - (6 - i))})

\* lines 57-66, the loop from i on
RECURSIVE streakLoop(_, _, _, _, _)
streakLoop(logs, weekEnd, i, streak, maxStreak) ==
    IF i >= 7 THEN maxStreak
    ELSE IF checkedIn(logs, weekEnd - (6 - i))
    THEN streakLoop(logs, weekEnd, i + 1, streak + 1,
                    IF streak + 1 > maxStreak THEN streak + 1 ELSE maxStreak)
    ELSE streakLoop(logs, weekEnd, i + 1, 0, maxStreak)

\* lines 55-68
longestStreak(logs, weekEnd) == streakLoop(logs, weekEnd, 0, 0, 0)

\* summaryData with a last week that also takes the first day of this week
summaryDataOverlapping(userId, o) ==
    LET startOfThisWeek == today - 6
        startOfLastWeek == today - 13
        logs == getDailyLogsInRange(userId, startOfLastWeek, today, o)
        logsThisWeek == SelectSeq(logs, LAMBDA log :
                                     log.date >= startOfThisWeek /\ log.date <= today)
        logsLastWeek == SelectSeq(logs, LAMBDA log :
                                     log.date >= startOfLastWeek
                                        /\ log.date <= startOfThisWeek)
    IN [checkinsThisWeek |-> countCheckins(logsThisWeek),
        checkinsLastWeek |-> countCheckins(logsLastWeek),
        completenessRate |-> MathRound(countCheckins(logsThisWeek) * 100, 7),
        streak |-> longestStreak(logsThisWeek, today)]

\* lines 7-81: summaryData without the lists it carries
summaryData(userId, o) ==
    LET startOfThisWeek == today - 6
        startOfLastWeek == today - 13
        logs == getDailyLogsInRange(userId, startOfLastWeek, today, o)
        logsThisWeek == SelectSeq(logs, LAMBDA log :
                                     log.date >= startOfThisWeek /\ log.date <= today)
        logsLastWeek == SelectSeq(logs, LAMBDA log :
                                     log.date >= startOfLastWeek
                                        /\ log.date < startOfThisWeek)
    IN [checkinsThisWeek |-> countCheckins(logsThisWeek),
        checkinsLastWeek |-> countCheckins(logsLastWeek),
        completenessRate |-> MathRound(countCheckins(logsThisWeek) * 100, 7),
        streak |-> longestStreak(logsThisWeek, today)]

\* the logs of the store: on each of the 7 days ending today user 1 has no
\* log, a log without payload or a log with one; the day before that week
\* has a log or not; the day before the 14 days has one, and so has today
\* for user 2
WeekLogs(kinds, before) ==
    LET days == {d \in DOMAIN kinds : kinds[d] # "none"}
               \cup (IF before THEN {7} ELSE {}) \cup {0}
        rows == {[user_id |-> 1, date |-> today - 14 + d,
                  checkin_json |-> IF d \in DOMAIN kinds /\ kinds[d] = "null"
                                   THEN NullCheckin
                                   ELSE [NullCheckin EXCEPT !.isNull = FALSE,
                                                            !.notes = <<"o", "k">>]]
                    : d \in days}
                \cup {[user_id |-> 2, date |-> today,
                       checkin_json |-> [NullCheckin EXCEPT !.isNull = FALSE,
                                                             !.notes = <<"o", "k">>]]}
        ordered == OrderByDate(rows)
    IN [i \in DOMAIN ordered |->
           [id |-> i, user_id |-> ordered[i].user_id, date |-> ordered[i].date,
            checkin_json |-> ordered[i].checkin_json]]

InitWeekly ==
    /\ users = <<>>
    /\ messages = <<>>
    /\ goals = <<>>
    /\ goalBreakdowns = <<>>
    /\ today = ReportDay
    /\ \E kinds \in [8..14 -> {"none", "null", "payload"}], before \in BOOLEAN :
          dailyLogs = WeekLogs(kinds, before)
    /\ req = [r \in Reqs |-> IdleRequest]
    /\ served = 0
    /\ fnArg = 1
    /\ fnRes = [pc |-> "start"]

\* generateWeeklyReport up to the call of the LLM
ApplyWeeklyReport(o) ==
    /\ fnRes.pc = "start"
    /\ fnRes' = [pc |-> "done", read |-> o, summaryData |-> summaryData(fnArg, o)]
    /\ UNCHANGED <<dbVars, today, req, served, fnArg>>

SpecWeekly == InitWeekly /\ [][\E o \in {"ok", "throw"} : ApplyWeeklyReport(o)]_vars

(***************************************************************************)
(* The reads of DatabaseService, each with the way its storage call ends.  *)
(* The client resolves a failed call with {data: null, error}, or the call *)
(* rejects and the catch of the method runs.  What a read returns is null, *)
(* a row, or a list of rows.                                               *)
(***************************************************************************)
Null == [type |-> "null"]
Row(row) == [type |-> "row", row |-> row]
List(rows) == [type |-> "list", rows |-> rows]

\* lines 62-70: res.data || [], and [] in the catch
getAllUsers(o) == IF o = "ok" THEN List(users) ELSE List(<<>>)

\* lines 98-107: res.data || null, and null in the catch
getUserByPhone(phone, o) ==
    IF o = "ok" /\ UserWithPhone(normalizePhone(phone)).id # 0
    THEN Row(UserWithPhone(normalizePhone(phone))) ELSE Null

\* lines 164-177: res.data || null, and null in the catch
getDailyLog(userId, date, o) ==
    IF o = "ok" /\ DailyLogId(userId, date) # 0
    THEN Row(dailyLogs[DailyLogId(userId, date)]) ELSE Null

\* lines 195-217: the logs of the days before today, the latest first;
\* res.data || [], and [] in the catch
getRecentCheckIns(userId, days, o) ==
    LET asc == getDailyLogsInRange(userId, today - days, today - 1, o)
    IN List([i \in DOMAIN asc |-> asc[Len(asc) + 1 - i]])

\* lines 247-255: res.data || [], and [] in the catch
getActiveGoals(userId, o) == IF o = "ok" THEN List(ActiveGoals(userId)) ELSE List(<<>>)

\* lines 268-276: res.data as it is, which is null when the client
\* resolves with an error, and [] in the catch
getGoalBreakdowns(goalId, o) ==
    IF o = "ok" THEN List(SelectSeq(goalBreakdowns, LAMBDA b : b.goal_id = goalId))
    ELSE IF o = "error" THEN Null
    ELSE List(<<>>)

ReadOperations ==
    {"getAllUsers", "getUserByPhone", "getDailyLog", "getDailyLogsInRange",
     "getRecentCheckIns", "getActiveGoals", "getGoalBreakdowns"}

\* a store with or without the user, a log of today or of yesterday, a
\* goal and its breakdowns
InitReads ==
    /\ users \in {<<>>, <<[id |-> 1, phone |-> normalizePhone(Sender1), name |-> <<>>]>>}
    /\ messages = <<>>
    /\ today = MaxDay
    /\ dailyLogs \in {<<>>} \cup
          { <<[id |-> 1, user_id |-> 1, date |-> d,
               checkin_json |-> [NullCheckin EXCEPT !.isNull = FALSE,
                                                    !.notes = <<"o", "k">>]]>>
              : d \in {MaxDay - 1, MaxDay} }
    /\ goals \in {<<>>, <<[id |-> 1, user_id |-> 1, main_goal |-> GoalText,
                           reason |-> <<>>, timeline |-> <<>>, is_active |-> TRUE]>>}
    /\ goalBreakdowns \in {<<>>, [i \in DOMAIN BreakdownItems |->
                                    [goal_id |-> 1, item |-> BreakdownItems[i]]]}
    /\ req = [r \in Reqs |-> IdleRequest]
    /\ served = 0
    /\ fnArg \in [op : ReadOperations, o : StorageOutcomes]
    /\ fnRes = [pc |-> "start"]

\* the read is called for user 1, goal 1, today
ApplyRead ==
    /\ fnRes.pc = "start"
    /\ fnRes' =
          [pc |-> "done",
           returned |->
              CASE fnArg.op = "getAllUsers" -> getAllUsers(fnArg.o)
                [] fnArg.op = "getUserByPhone" -> getUserByPhone(Sender2, fnArg.o)
                [] fnArg.op = "getDailyLog" -> getDailyLog(1, today, fnArg.o)
                [] fnArg.op = "getDailyLogsInRange" ->
                      List(getDailyLogsInRange(1, today - 13, today, fnArg.o))
                [] fnArg.op = "getRecentCheckIns" -> getRecentCheckIns(1, 4, fnArg.o)
                [] fnArg.op = "getActiveGoals" -> getActiveGoals(1, fnArg.o)
                [] fnArg.op = "getGoalBreakdowns" -> getGoalBreakdowns(1, fnArg.o)]
    /\ UNCHANGED <<dbVars, today, req, served, fnArg>>

SpecReads == InitReads /\ [][ApplyRead]_vars

(***************************************************************************)
(* POST /trigger-reminders (server.ts lines 17-25) and                     *)
(* ReminderService.sendDailyReminders (services/reminderService).  fnRes   *)
(* is the run of the sweep: its position, the users it read, the user it   *)
(* is at, what the two reads of that user returned, the sends it made, the *)
(* users whose reads failed, and the response.                             *)
(***************************************************************************)
\* line 38: the message up to the name, and after it (the two emoji of the
\* text are left out)
reminderHead == <<"H", "i", " ">>
reminderTail ==
    <<"!", "\n", "\n", "I", "t", "'", "s", " ", "b", "e", "e", "n", " ", "a",
      " ", "w", "h", "i", "l", "e", " ", "s", "i", "n", "c", "e", " ", "y",
      "o", "u", "r", " ", "l", "a", "s", "t", " ", "c", "h", "e", "c", "k",
      "-", "i", "n", ".", " ", "H", "o", "w", " ", "a", "r", "e", " ", "y",
      "o", "u", " ", "d", "o", "i", "n", "g", " ", "t", "o", "d", "a", "y",
      "?", " ", "I", "'", "m", " ", "h", "e", "r", "e", " ", "t", "o", " ",
      "h", "e", "l", "p", " ", "y", "o", "u", " ", "s", "t", "a", "y", " ",
      "o", "n", " ", "t", "r", "a", "c", "k", " ", "w", "i", "t", "h", " ",
      "y", "o", "u", "r", " ", "g", "o", "a", "l", "s", "!", "\n", "\n", "J",
      "u", "s", "t", " ", "s", "e", "n", "d", " ", "m", "e", " ", "a", " ",
      "m", "e", "s", "s", "a", "g", "e", " ", "a", "b", "o", "u", "t", " ",
      "h", "o", "w", " ", "y", "o", "u", "'", "r", "e", " ", "f", "e", "e",
      "l", "i", "n", "g", " ", "a", "n", "d", " ", "w", "h", "a", "t", " ",
      "y", "o", "u", "'", "d", " ", "l", "i", "k", "e", " ", "t", "o", " ",
      "a", "c", "c", "o", "m", "p", "l", "i", "s", "h", " ", "t", "o", "d",
      "a", "y", ".">>

\* lines 37-38
reminderMessage(name) ==
    reminderHead \o (IF name = <<>> THEN <<"t", "h", "e", "r", "e">> ELSE name)
        \o reminderTail

IdleSweep ==
    [pc |-> "idle", users |-> <<>>, i |-> 0, todayCheckin |-> Null,
     sent |-> <<>>, failed |-> {}, response |-> NoResponse]

\* the logs a user can have: none, or one on some of the last three days
SweepLogs(days1, days2) ==
    LET rows == {[user_id |-> 1, date |-> d] : d \in days1}
                \cup {[user_id |-> 2, date |-> d] : d \in days2}
        ordered == OrderByDate(rows)
    IN [k \in DOMAIN ordered |->
           [id |-> k, user_id |-> ordered[k].user_id, date |-> ordered[k].date,
            checkin_json |-> [NullCheckin EXCEPT !.isNull = FALSE,
                                                 !.notes = <<"o", "k">>]]]

InitReminders ==
    /\ users = << [id |-> 1, phone |-> normalizePhone(Sender1), name |-> <<"A", "l">>],
                  [id |-> 2, phone |-> normalizePhone(Sender3), name |-> <<>>] >>
    /\ messages = <<>>
    /\ goals = <<>>
    /\ goalBreakdowns = <<>>
    /\ today = ReportDay
    /\ \E days1 \in SUBSET {ReportDay - 2, ReportDay - 1, ReportDay},
          days2 \in {{}, {ReportDay - 1}, {ReportDay - 2}} :
          dailyLogs = SweepLogs(days1, days2)
    /\ req = [r \in Reqs |-> IdleRequest]
    /\ served = 0
    /\ fnArg = <<>>
    /\ fnRes = IdleSweep

\* server.ts line 20 ends: the status is the response (a throw of the
\* sweep never reaches the route: lines 31-33 catch it)
NextUser(sweep) ==
    IF sweep.i < Len(sweep.users)
    THEN [sweep EXCEPT !.i = @ + 1, !.todayCheckin = Null, !.pc = "getDailyLog"]
    ELSE [sweep EXCEPT !.pc = "done",
                       !.response = [code |-> 200,
                                     body |-> [status |-> "Reminders triggered successfully"]]]

\* line 9: getAllUsers
SweepGetAllUsers(o) ==
    /\ fnRes.pc = "idle"
    /\ fnRes' = NextUser([fnRes EXCEPT !.users = getAllUsers(o).rows,
                                       !.failed = IF o = "ok" THEN {} ELSE {0}])
    /\ UNCHANGED <<dbVars, today, req, served, fnArg>>

\* line 19: getDailyLog(user.id, today)
SweepGetDailyLog(o) ==
    LET user == fnRes.users[fnRes.i]
    IN /\ fnRes.pc = "getDailyLog"
       /\ fnRes' = [fnRes EXCEPT !.todayCheckin = getDailyLog(user.id, today, o),
                                 !.failed = IF o = "ok" THEN @ ELSE @ \cup {user.id},
                                 !.pc = "getDailyLogYesterday"]
       /\ UNCHANGED <<dbVars, today, req, served, fnArg>>

\* lines 20-22: getDailyLog(user.id, yesterday) and the test
SweepGetDailyLogYesterday(o) ==
    LET user == fnRes.users[fnRes.i]
        yesterdayCheckin == getDailyLog(user.id, today - 1, o)
        sweep == [fnRes EXCEPT !.failed = IF o = "ok" THEN @ ELSE @ \cup {user.id}]
    IN /\ fnRes.pc = "getDailyLogYesterday"
       /\ fnRes' = IF fnRes.todayCheckin = Null /\ yesterdayCheckin = Null
                    THEN [sweep EXCEPT !.pc = "sendReminder"]
                    ELSE NextUser(sweep)
       /\ UNCHANGED <<dbVars, today, req, served, fnArg>>

\* lines 23 and 36-41: the message is sent
SweepSendReminder ==
    LET user == fnRes.users[fnRes.i]
    IN /\ fnRes.pc = "sendReminder"
       /\ \E result \in sendResults(user.phone, reminderMessage(user.name)) :
             LET sweep == [fnRes EXCEPT !.sent = Append(@, [user_id |-> user.id,
                                                            calls |-> result.calls,
                                                            sid |-> result.sid])]
             IN fnRes' = IF result.sid # 0 THEN [sweep EXCEPT !.pc = "logReminder"]
                         ELSE NextUser(sweep)
       /\ UNCHANGED <<dbVars, today, req, served, fnArg>>

\* line 42: logMessage; what it throws is caught at line 25
SweepLogReminder(o) ==
    LET user == fnRes.users[fnRes.i]
    IN /\ fnRes.pc = "logReminder"
       /\ messages' = IF o = "ok"
                      THEN Append(messages, [user_id |-> user.id, direction |-> "outbound",
                                             body |-> Plain(reminderMessage(user.name))])
                      ELSE messages
       /\ fnRes' = NextUser(fnRes)
       /\ UNCHANGED <<users, dailyLogs, goals, goalBreakdowns, today, req, served, fnArg>>

NextReminders ==
    \/ \E o \in StorageOutcomes :
          \/ SweepGetAllUsers(o)
          \/ SweepGetDailyLog(o)
          \/ SweepGetDailyLogYesterday(o)
          \/ SweepLogReminder(o)
    \/ SweepSendReminder

SpecReminders == InitReminders /\ [][NextReminders]_vars

(***************************************************************************)
(* Claims.  A request is valid when its sender and its body are there.     *)
(***************************************************************************)
Valid(q) == q.from # <<>> /\ q.body # <<>>

\* rows of table messages of a user in a direction
MessagesOf(userId, direction) ==
    {i \in DOMAIN messages :
        messages[i].user_id = userId /\ messages[i].direction = direction}

\* C1: an outbound message is logged only when the send before it reported
\* success, in the weekly-report branch as in the others.
C1_OutboundOnlyAfterSend ==
    \A r \in Reqs :
        "outbound_logged" \in req[r].events => "send_failed" \notin req[r].events

\* the store had no user for the sender of the request when it came
Unseen(q) == \A i \in 1..q.usersBefore : users[i].phone # normalizePhone(q.from)

\* C2: a valid request from a phone the store does not know, served with
\* every external call succeeding, ends with one new user, one inbound and
\* one outbound message of that user, in each of the four branches.
C2_OneUserOneInboundOneOutbound ==
    \A r \in Reqs :
        LET q == req[r]
        IN q.pc = "done" /\ Valid(q) /\ Unseen(q)
              /\ q.events \cap {"fault", "send_failed"} = {}
           => /\ Len(users) = q.usersBefore + 1
              /\ q.user = users[Len(users)]
              /\ q.branch \in {"weekly", "goal", "checkin", "general"}
              /\ Cardinality(MessagesOf(q.user.id, "inbound")) = 1
              /\ Cardinality(MessagesOf(q.user.id, "outbound")) = 1

\* such a request, the second one served, in the weekly-report branch
C2_Witness ==
    LET q == req[1]
    IN /\ q.pc = "done" /\ Valid(q) /\ Unseen(q) /\ q.branch = "weekly"
       /\ q.events \cap {"fault", "send_failed"} = {}
       /\ q.usersBefore = 1
       /\ q.response.code = 200
       /\ Cardinality(MessagesOf(q.user.id, "outbound")) = 1

\* rows of table daily_logs of a user and a date
RowsFor(userId, date) ==
    {i \in DOMAIN dailyLogs :
        dailyLogs[i].user_id = userId /\ dailyLogs[i].date = date}

\* C3: once createDailyLog has returned with no storage failure, first call
\* or second, there is one row of (user, date) and it holds the payload of
\* that call; no (user, date) ever has two rows.
C3_SecondPayloadWins ==
    /\ \A r \in Reqs :
          LET q == req[r]
          IN q.pc = "generateDailyPlan" /\ "log_failed" \notin q.events
             => /\ Cardinality(RowsFor(q.user.id, q.today)) = 1
                /\ \A i \in RowsFor(q.user.id, q.today) :
                      dailyLogs[i].checkin_json = q.checkin
    /\ \A i, j \in DOMAIN dailyLogs :
          dailyLogs[i].user_id = dailyLogs[j].user_id
             /\ dailyLogs[i].date = dailyLogs[j].date => i = j

\* the second call has replaced a payload by another one
C3_Witness ==
    /\ req[1].pc = "generateDailyPlan"
    /\ req[1].events \cap {"log_failed", "fault"} = {}
    /\ "log_replaced" \in req[1].events
    /\ Len(dailyLogs) = 1
    /\ dailyLogs[1].checkin_json = req[1].checkin

\* the message bodies sendWhatsAppMessage handed to the messaging API
ApiBodies == {fnRes.calls[i].body : i \in DOMAIN fnRes.calls}

\* C4: every message body sendWhatsAppMessage hands to the messaging API
\* has at most 1600 characters, its [i/N] marker included; a text of 3200
\* characters without a space goes out in 2 such parts, and a text of at
\* most 1600 characters goes out as one message, unmarked.
C4_BodiesWithinLimit ==
    /\ \A body \in ApiBodies : Len(body) <= MAX_MESSAGE_LENGTH
    /\ fnRes.sid # 0 /\ fnArg = Filled(2 * MAX_MESSAGE_LENGTH, {})
          => Len(fnRes.calls) = 2
    /\ fnRes.sid # 0 /\ Len(fnArg) <= MAX_MESSAGE_LENGTH
          => /\ Len(fnRes.calls) = 1
             /\ fnRes.calls[1].body = fnArg

\* C5: normalizePhone gives a text that starts with "+" for every input,
\* and applied to its own result it gives that result again.
C5_NormalizeIdempotent ==
    /\ \A i \in DOMAIN fnRes : startsWith(fnRes[i], Plus)
    /\ Len(fnRes) >= 2 => fnRes[2] = fnRes[1]

\* what the operations of each branch leave in the events of a request
WeeklyEvents == {"weekly_report"}
GoalEvents == {"set_goal", "goal_saved", "goal_failed", "llm_breakdowns_1", "llm_breakdowns_2"}
CheckinEvents ==
    {"llm_extract", "log_written", "log_replaced", "log_rejected", "log_failed", "daily_plan"}
GeneralEvents == {"general_response"}
BranchEvents == {"weekly_report", "set_goal", "daily_plan", "general_response"}

\* C6: a request runs the operations of one branch only, the first in the
\* order weekly report, goal declaration, check-in, general response whose
\* condition its body meets: a goal declaration is never tried as a
\* check-in, and a weekly-report command is never tried as either.  Every
\* request answered with 200 has run one branch.
C6_OneBranchByPriority ==
    \A r \in Reqs :
        LET q == req[r]
            m == bodyMatches[q.body]
            ran(E) == q.events \cap E # {}
        IN /\ m.weekly => ~ran(GoalEvents \cup CheckinEvents \cup GeneralEvents \cup {"flexible"})
           /\ ~m.weekly /\ m.goalMatch.ok
                 => ~ran(WeeklyEvents \cup CheckinEvents \cup GeneralEvents \cup {"flexible"})
           /\ ~m.weekly /\ ~m.goalMatch.ok /\ ~m.checkin.isNull
                 => ~ran(WeeklyEvents \cup GoalEvents \cup GeneralEvents
                           \cup {"flexible", "llm_extract"})
           /\ ~m.weekly /\ ~m.goalMatch.ok /\ m.checkin.isNull
                 => /\ ~ran(WeeklyEvents \cup GoalEvents)
                    /\ ~(ran(GeneralEvents) /\ ran(CheckinEvents \ {"llm_extract"}))
                    /\ ~m.likely => ~ran(CheckinEvents)
           /\ Cardinality(q.events \cap BranchEvents) <= 1
           /\ q.pc = "done" /\ q.response.code = 200
                 => Cardinality(q.events \cap BranchEvents) = 1

\* a goal declaration whose timeline reads as a check-in, served as a goal
C6_Witness ==
    /\ req[1].pc = "done"
    /\ req[1].body = GoalCheckinBody
    /\ ~bodyMatches[GoalCheckinBody].checkin.isNull
    /\ "goal_saved" \in req[1].events
    /\ req[1].response.code = 200

\* C7: a request whose sender or body is missing or empty is answered with
\* 400 at once: no step of the handler follows, nothing is sent, no LLM is
\* called and no table changes.
C7_InvalidRejected ==
    /\ [](\A r \in Reqs :
            LET q == req[r]
            IN (q.from = <<>> \/ q.body = <<>>) /\ q.pc # "idle"
               => /\ q.pc = "done"
                  /\ q.response = [code |-> 400, body |-> [error |-> "Invalid message data"]]
                  /\ q.events = {}
                  /\ q.sent = <<>>)
    /\ [][\A r \in Reqs :
             req'[r] # req[r] /\ (req'[r].from = <<>> \/ req'[r].body = <<>>)
                => UNCHANGED dbVars]_vars

\* a request without a body has been rejected after one that was served
C7_Witness ==
    /\ req[1].pc = "done"
    /\ req[1].from # <<>> /\ req[1].body = <<>>
    /\ req[1].response.code = 400
    /\ Len(messages) = 2

C10_OneUserPerPhone ==
    /\ \A i, j \in DOMAIN users :
          normalizePhone(users[i].phone) = normalizePhone(users[j].phone) => i = j
    /\ \A r \in Reqs :
          LET q == req[r]
          IN q.user.id # 0
             => /\ q.user.id \in DOMAIN users
                /\ users[q.user.id] = q.user
                /\ q.user.phone = normalizePhone(q.from)

\* the second request comes from the number of the first in another form
\* and is served for the user the first one created
C10_Witness ==
    /\ req[1].pc = "done"
    /\ req[1].from = Sender2
    /\ req[1].usersBefore = 1
    /\ Len(users) = 1
    /\ users[1].name = <<"A", "l">>
    /\ req[1].user = users[1]
    /\ req[1].response.code = 200

\* C11: two requests of one brand-new phone served at the same time can
\* both see that the phone has no user and both issue the insert of its
\* row; nothing in the handler or the gateway stops the second insert, and
\* only the UNIQUE constraint of the table keeps the row single: one insert
\* adds the row, the other adds none and its request is answered 500.
C11_RaceOnFirstMessage ==
    \A r1, r2 \in Reqs :
        ( /\ r1 # r2
          /\ normalizePhone(req[r1].from) = normalizePhone(req[r2].from)
          /\ {"no_user_seen", "insert_issued"} \subseteq req[r1].events
          /\ {"no_user_seen", "insert_issued"} \subseteq req[r2].events
          /\ "user_inserted" \in req[r1].events )
        => /\ Cardinality({i \in DOMAIN users :
                               users[i].phone = normalizePhone(req[r1].from)}) = 1
           /\ "user_inserted" \notin req[r2].events
           /\ "create_user_failed" \in req[r2].events
           /\ req[r2].response.code = 500

C11_Witness ==
    /\ normalizePhone(req[1].from) = normalizePhone(req[2].from)
    /\ req[1].from # req[2].from
    /\ \A r \in Reqs : /\ {"no_user_seen", "insert_issued"} \subseteq req[r].events
                       /\ req[r].usersBefore = 0
    /\ "user_inserted" \in req[1].events
    /\ "insert_rejected" \in req[2].events

\* C12: the parts of a send go out in the order 1..N, part i+1 is tried
\* only after part i was sent; when every call succeeds the result is the
\* identifier of part N; when a call fails the result is null, no later
\* part is tried, and the parts sent before stay sent.
C12_PartsInOrder ==
    /\ [](fnRes.pc # "start" =>
            LET N == Len(outboundBodies(fnArg))
                made == Len(fnRes.calls)
            IN /\ made <= N
               /\ \A i \in 1..made : fnRes.calls[i].body = outboundBodies(fnArg)[i]
               /\ \A i \in 1..(made - 1) : fnRes.calls[i].ok
               /\ fnRes.pc # "done" => \A i \in 1..made : fnRes.calls[i].ok
               /\ fnRes.pc = "done" =>
                     IF \A i \in 1..made : fnRes.calls[i].ok
                     THEN made = N /\ fnRes.sid = N
                     ELSE fnRes.sid = 0 /\ ~fnRes.calls[made].ok
               /\ fnRes.pc = "done" =>
                     \E to \in Senders :
                        [calls |-> fnRes.calls, sid |-> fnRes.sid]
                            \in sendResults(to, fnArg))
    /\ [][fnRes.pc # "start" =>
             /\ Len(fnRes'.calls) >= Len(fnRes.calls)
             /\ SubSeq(fnRes'.calls, 1, Len(fnRes.calls)) = fnRes.calls
             /\ fnRes.pc = "done" => fnRes' = fnRes]_vars

\* a send in two parts whose second call failed after the first was sent
C12_Witness ==
    /\ fnRes.pc = "done"
    /\ Len(fnRes.bodies) = 2
    /\ Len(fnRes.calls) = 2
    /\ fnRes.calls[1].ok
    /\ ~fnRes.calls[2].ok
    /\ fnRes.sid = 0

\* C13: generateGoalBreakdowns asks for at most two completions, the
\* second one only after the text of the first did not parse; when the
\* second text does not parse either the result is the empty list.  In the
\* webhook and in /set-goal the goal saved before stays saved when the
\* breakdowns come back empty, and the request goes on as a success.
C13_OneRetryGoalKept ==
    \A r \in Reqs :
        LET q == req[r]
        IN /\ q.completions <= 2
           /\ q.completions = 2 <=> "llm_breakdowns_2" \in q.events
           /\ "llm_breakdowns_2" \in q.events
                 => {"llm_breakdowns_1", "unparsed_1"} \subseteq q.events
           /\ "unparsed_2" \in q.events
                 => "breakdowns_empty" \in q.events /\ q.breakdowns = <<>>
           /\ "breakdowns_empty" \in q.events
                 => /\ "goal_saved" \in q.events
                    /\ q.goal_id \in DOMAIN goals
                    /\ goals[q.goal_id] =
                          [id |-> q.goal_id, user_id |-> q.user.id,
                           main_goal |-> GoalInput(q).main_goal,
                           reason |-> GoalInput(q).reason,
                           timeline |-> GoalInput(q).timeline, is_active |-> TRUE]
                    /\ Cardinality({i \in DOMAIN goalBreakdowns :
                                       goalBreakdowns[i].goal_id = q.goal_id}) = 0
                    /\ IF q.route = "set-goal"
                       THEN q.pc = "done" /\ q.response.code = 200
                       ELSE q.responseMessage = goalSetMessage(GoalInput(q))

\* a request of /set-goal answered 200 with its goal saved after two
\* completions that did not parse, the second request served
C13_Witness ==
    /\ req[1].route = "set-goal"
    /\ req[1].pc = "done"
    /\ {"unparsed_1", "unparsed_2", "breakdowns_empty"} \subseteq req[1].events
    /\ req[1].completions = 2
    /\ req[1].response.code = 200
    /\ Len(goals) = 2
    /\ goals[2].main_goal = GoalText

\* the example of the claim
StrictExample ==
    [strict |-> TRUE, before |-> <<>>,
     sleep |-> [digits |-> <<"7">>, frac |-> <<>>, h |-> TRUE],
     mood |-> <<"8">>, energy |-> <<"6">>, notes |-> <<" ", "F", "e", "e", "l", "i", "n", "g", " ", "g", "o", "o", "d", " ", "t", "o", "d", "a", "y">>]

RECURSIVE Canonical(_)
Canonical(ds) == IF Len(ds) > 1 /\ ds[1] = "0" THEN Canonical(Tail(ds)) ELSE ds

\* the first line of a text
FirstLine(s) ==
    LET breaks == {i \in 1..Len(s) : s[i] = "\n"}
    IN IF breaks = {} THEN s ELSE SubSeq(s, 1, Min(breaks) - 1)

CheckinDays(userId) ==
    {d \in (today - 6)..today :
        \E i \in DOMAIN dailyLogs : /\ dailyLogs[i].user_id = userId
                                    /\ dailyLogs[i].date = d
                                    /\ ~dailyLogs[i].checkin_json.isNull}

\* C15: checkinsThisWeek is the number of logs with a payload dated in the
\* 7 days ending today, and completenessRate is the integer nearest to
\* checkinsThisWeek / 7 * 100; 5 such days give 71.
C15_CompletenessRate ==
    fnRes.pc = "done" /\ fnRes.read = "ok"
    => LET n == Cardinality(CheckinDays(fnArg))
           rate == fnRes.summaryData.completenessRate
       IN /\ fnRes.summaryData.checkinsThisWeek = n
          /\ 2 * (7 * rate - 100 * n) <= 7
          /\ 2 * (100 * n - 7 * rate) < 7
          /\ n = 5 => rate = 71

\* 5 days with a payload, one log without, one day without a log
C15_Witness ==
    /\ fnRes.pc = "done" /\ fnRes.read = "ok"
    /\ Cardinality(CheckinDays(fnArg)) = 5
    /\ \E i \in DOMAIN dailyLogs :
          /\ dailyLogs[i].user_id = fnArg /\ dailyLogs[i].date = today
          /\ dailyLogs[i].checkin_json.isNull
    /\ fnRes.summaryData.completenessRate = 71

\* C16: streak is the length of the longest run of consecutive days,
\* among the 7 ending today, that each have a log with a payload; runs are
\* not summed: check-ins on days 1, 2, 3, 5, 6, 7 of the week give 3.
C16_LongestRun ==
    fnRes.pc = "done" /\ fnRes.read = "ok"
    => LET days == CheckinDays(fnArg)
           runs == {len \in 0..7 :
                      \E first \in (today - 6)..today :
                         \A d \in first..(first + len - 1) : d \in days}
       IN /\ fnRes.summaryData.streak = Max(runs)
          /\ days = ((today - 6)..today) \ {today - 3}
                => fnRes.summaryData.streak = 3

\* the week of the example
C16_Witness ==
    /\ fnRes.pc = "done" /\ fnRes.read = "ok"
    /\ CheckinDays(fnArg) = ((today - 6)..today) \ {today - 3}
    /\ fnRes.summaryData.streak = 3
    /\ fnRes.summaryData.checkinsThisWeek = 6

\* C17: when the completion of the weekly report, of the daily plan or of
\* the general response fails (the call throws, or there is no content),
\* the reply of the request is the fixed text of that generator, which is
\* not empty, the next step of the request is its send, and a request
\* that has gone past that step has made a call of the messaging API.
C17_ReplyAfterFailedGeneration ==
    \A r \in Reqs :
        LET q == req[r]
            failed == "generation_failed" \in q.events
        IN q.events \cap {"generation_failed", "generation_empty"} # {}
           => /\ q.branch \in {"weekly", "checkin", "general"}
              /\ Chars(q.responseMessage) # <<>>
              /\ q.responseMessage =
                    Plain(CASE q.branch = "weekly" ->
                                 IF failed THEN weeklyReportApology ELSE weeklyReportEmpty
                            [] q.branch = "checkin" ->
                                 dailyPlanHead \o (IF failed THEN dailyPlanApology
                                                   ELSE dailyPlanEmpty)
                            [] q.branch = "general" -> generalFallback)
              /\ \/ q.pc \in {"sendReport", "sendWhatsAppMessage"} /\ q.sent = <<>>
                 \/ /\ q.pc \in {"logReport", "logReply", "done"}
                    /\ Len(q.sent) = 1
                    /\ q.sent[1].body = Chars(q.responseMessage)

\* a daily plan whose completion threw: the apology was sent and the
\* request answered
C17_Witness ==
    /\ req[1].pc = "done"
    /\ req[1].branch = "checkin"
    /\ "generation_failed" \in req[1].events
    /\ req[1].messageSid # 0
    /\ req[1].response.code = 200

\* C18: a read whose storage call fails returns null (getUserByPhone,
\* getDailyLog) or the empty list (the other reads), and a read that
\* returns lists returns a list however its call ends.
C18_ReadsNeverFail ==
    fnRes.pc = "done"
    => /\ fnArg.op \in {"getUserByPhone", "getDailyLog"}
          => /\ fnRes.returned.type \in {"row", "null"}
             /\ fnArg.o # "ok" => fnRes.returned = Null
       /\ fnArg.op \notin {"getUserByPhone", "getDailyLog"}
          => /\ fnRes.returned.type = "list"
             /\ fnArg.o # "ok" => fnRes.returned = List(<<>>)

\* C19: a goal creation that succeeds adds one goal, active, and leaves
\* the goals that exist as they are; every goal created so far is active,
\* and a user can have several.
C19_GoalsStayActive ==
    /\ [](\A i \in DOMAIN goals : goals[i].is_active /\ goals[i].id = i)
    /\ [](\A r \in Reqs :
            "goal_saved" \in req[r].events
               => /\ req[r].goal_id \in DOMAIN goals
                  /\ goals[req[r].goal_id].user_id = req[r].user.id
                  /\ goals[req[r].goal_id] \in Range(ActiveGoals(req[r].user.id)))
    /\ [][/\ Len(goals') >= Len(goals)
          /\ SubSeq(goals', 1, Len(goals)) = goals
          /\ \A r \in Reqs :
                "goal_saved" \in req'[r].events /\ "goal_saved" \notin req[r].events
                   => /\ Len(goals') = Len(goals) + 1
                      /\ req'[r].goal_id = Len(goals')]_vars

\* the second goal of a user has been created, one over WhatsApp and one
\* over /set-goal, and both are active
C19_Witness ==
    /\ Len(goals) = 2
    /\ goals[1].user_id = goals[2].user_id
    /\ Len(ActiveGoals(goals[1].user_id)) = 2
    /\ goals[1].reason # goals[2].reason
    /\ req[1].route = "set-goal"
    /\ req[1].pc = "done"

\* the users the sweep made a call of the messaging API for
Nudged == {fnRes.sent[k].user_id : k \in DOMAIN fnRes.sent}

\* the user has a log of today or of yesterday
HasCheckin(userId) ==
    \E i \in DOMAIN dailyLogs :
        dailyLogs[i].user_id = userId /\ dailyLogs[i].date \in {today - 1, today}

\* C20: the sweep visits every user and sends the nudge to a user exactly
\* when the user has no check-in of today and none of yesterday, and the
\* endpoint then answers with a status.
C20_NudgeExactlyWithoutCheckin ==
    fnRes.pc = "done"
    => /\ fnRes.users = users
       /\ \A i \in DOMAIN users : users[i].id \in Nudged <=> ~HasCheckin(users[i].id)
       /\ fnRes.response.code = 200
       /\ "status" \in DOMAIN fnRes.response.body

\* C21: a goal declaration is accepted in the form with bars and in the
\* form with line breaks, and the goal, the reason and the timeline read
\* from the two forms of one declaration are the same (the texts written,
\* without the whitespace around them).
C21_SameFieldsFromBothForms ==
    /\ fnRes.pipe.read => fnRes.pipe.fields.ok
    /\ fnRes.lines.read => fnRes.lines.fields.ok
    /\ fnRes.pipe.read /\ fnRes.lines.read
         => /\ fnRes.pipe.fields = fnRes.lines.fields
            /\ fnRes.lines.fields.main_goal = trim(fnArg.X)
            /\ fnRes.lines.fields.reason = trim(fnArg.Y)
            /\ fnRes.lines.fields.timeline = trim(fnArg.Z)

\* both forms of a declaration whose texts hold a bar and a line break
C21_Witness ==
    /\ fnRes.pipe.read /\ fnRes.lines.read
    /\ fnArg.X = <<"a", "|", "b">>
    /\ fnArg.Y = <<"u", "p", "\n", "h", "i", "l", "l">>
    /\ fnArg.spaced
    /\ fnRes.pipe.fields.main_goal = <<"a", "|", "b">>
    /\ fnRes.lines.fields.reason = <<"u", "p", "\n", "h", "i", "l", "l">>

\* no (user, date) has two rows in table daily_logs
OneRowPerUserAndDate ==
    \A i, j \in DOMAIN dailyLogs :
        dailyLogs[i].user_id = dailyLogs[j].user_id /\ dailyLogs[i].date = dailyLogs[j].date
        => i = j

\* the write of slot r has just ended without a failure of the storage
Saved(r) ==
    /\ req[r].pc = "writeDailyLog"
    /\ req'[r].pc = "generateDailyPlan"
    /\ "log_failed" \notin req'[r].events

\* C22: no (user, date) ever has two daily logs, also when two check-ins
\* of one user and date interleave between the lookup and the insert, and
\* a check-in saved when the pair has a row overwrites the payload of that
\* row: after the write the row holds the payload of that check-in.
C22_OneLogSecondOverwrites ==
    /\ []OneRowPerUserAndDate
    /\ [][\A r \in Reqs :
            Saved(r) => \E i \in DOMAIN dailyLogs' :
                            /\ dailyLogs'[i].user_id = req[r].user.id
                            /\ dailyLogs'[i].date = req[r].today
                            /\ dailyLogs'[i].checkin_json = req[r].checkin]_vars

\* the indices (from 0) up to the limit at which a text holds one of chars
Boundaries(text, limit, chars) ==
    {i \in 0..limit : i + 1 <= Len(text) /\ text[i + 1] \in chars}

Whitespace == {" ", "\n", "\t", "\r"}

\* C23 as claimed: every cut is made at the last whitespace at or before
\* the limit when that whitespace lies at or after 80% of the limit, and
\* at the limit itself only when there is no such whitespace.
C23_CutAtLastWhitespace ==
    \A k \in DOMAIN fnRes.cuts :
        LET cut == fnRes.cuts[k]
            found == Boundaries(cut.text, fnArg.maxLength, Whitespace)
        IN cut.splitIndex =
              IF found # {} /\ 10 * Max(found) >= 8 * fnArg.maxLength
              THEN Max(found) ELSE fnArg.maxLength

\* C23: every cut is made at the last space character at an index at or
\* before the limit when that index is greater than 80% of the limit, and
\* at the limit itself otherwise (no space up to the limit, the last one
\* at or before 80% of it, or whitespace that is not a space); a cut that
\* is not at the limit is at a space.
C23_CutAtLastSpace ==
    \A k \in DOMAIN fnRes.cuts :
        LET cut == fnRes.cuts[k]
            found == Boundaries(cut.text, fnArg.maxLength, {" "})
        IN /\ Len(cut.text) > fnArg.maxLength
           /\ cut.splitIndex =
                 IF found # {} /\ 10 * Max(found) > 8 * fnArg.maxLength
                 THEN Max(found) ELSE fnArg.maxLength
           /\ cut.splitIndex # fnArg.maxLength => cut.text[cut.splitIndex + 1] = " "

\* a text of 3201 characters with a space at index 1499: cut there, and
\* what remains, which has no space, cut at the limit
C23_Witness ==
    /\ fnRes.pc = "done"
    /\ fnArg.maxLength = MAX_MESSAGE_LENGTH
    /\ Len(fnArg.message) = 2 * MAX_MESSAGE_LENGTH + 1
    /\ Len(fnRes.cuts) = 2
    /\ fnRes.cuts[1].splitIndex = 1499
    /\ fnRes.cuts[2].splitIndex = MAX_MESSAGE_LENGTH
    /\ Len(fnRes.parts) = 3

\* C28: splitMessage returns for every text and every limit of at least
\* one character: every iteration of its loop either ends the loop or
\* leaves a remaining text shorter than before, and no part it returns is
\* longer than the limit.
C28_SplitTerminates ==
    /\ <>(fnRes.pc = "done")
    /\ [][fnRes.pc = "loop"
            => \/ fnRes'.pc = "done"
               \/ Len(fnRes'.remainingMessage) < Len(fnRes.remainingMessage)]_vars
    /\ [](\A k \in DOMAIN fnRes.parts : Len(fnRes.parts[k]) <= fnArg.maxLength)

\* a text of six characters split at a limit of one character
C28_Witness ==
    /\ fnRes.pc = "done"
    /\ fnArg.maxLength = 1
    /\ fnArg.message = <<"a", " ", "a", "a", " ", "a">>
    /\ fnRes.parts = << <<"a">>, <<"a">>, <<"a">>, <<"a">> >>

\* some field of the object holds a value that is not blank
Populated(data) ==
    \/ data.sleep_hours.present
    \/ \E v \in {data.current_mood, data.current_energy_level, data.notes} :
          trim(v) # <<>>

LogEvents == {"log_written", "log_replaced", "log_rejected"}

\* C24: when the completion of the flexible extraction throws, is empty,
\* is the literal null, does not parse or holds an object without a
\* populated field, the request takes the general branch and writes no
\* daily log; a request takes the check-in branch after an extraction only
\* if the completion held an object with at least one populated field.
C24_AbsentUnlessPopulatedObject ==
    \A r \in Reqs :
        LET q == req[r]
        IN "llm_extract" \in q.events
           => /\ \/ fnRes.kind \in {"throw", "empty", "null", "unparseable"}
                 \/ fnRes.kind = "object" /\ ~Populated(fnRes.data)
                 => q.branch = "general" /\ q.events \cap LogEvents = {}
              /\ q.branch = "checkin"
                 => fnRes.kind = "object" /\ Populated(fnRes.data)

\* C25: for a message that is not a strict check-in and holds no keyword,
\* no temporal phrase and no reflective phrase, the flexible extraction
\* returns no check-in and asks for no completion; a completion is asked
\* for only for a message with a signal (and then for one).
C25_NoSignalNoCompletion ==
    "signals" \in DOMAIN fnArg
    => /\ fnArg.signals = {} => fnRes.llm = 0 /\ fnRes.checkin.isNull
       /\ fnRes.llm > 0 => fnArg.signals # {}
       /\ fnRes.pc = "done" /\ fnArg.signals # {} => fnRes.llm = 1

\* "wasp", which holds "was" but not as a word, went through the extraction
C25_Witness ==
    /\ fnRes.pc = "done"
    /\ "signals" \in DOMAIN fnArg
    /\ fnArg.signals = {}
    /\ fnArg.message = <<"w", "a", "s", "p">>
    /\ fnRes.llm = 0
    /\ fnRes.checkin.isNull

\* the request has handed the text to the messaging API
SentText(q, text) == q.sent # <<>> /\ q.responseMessage = text

\* the goal the request saved is a row of table goals
GoalPersisted(q) ==
    /\ "goal_saved" \in q.events
    /\ \E i \in DOMAIN goals : goals[i].id = q.goal_id /\ goals[i].user_id = q.user.id

\* C26: in the goal branch of the webhook the confirmation is sent only
\* if the request persisted a goal, and the apology is sent only if it
\* persisted none, also when the breakdowns fail after the goal was saved.
C26_ReplyAgreesWithGoal ==
    \A r \in Reqs :
        LET q == req[r]
        IN q.route = "whatsapp" /\ "set_goal" \in q.events
           => /\ SentText(q, goalSetMessage(GoalFields(q.body))) => GoalPersisted(q)
              /\ SentText(q, Plain(goalApology)) => ~GoalPersisted(q)

\* the logs of the user in the 14 days ending today that carry a payload
PayloadLogs(userId) ==
    {i \in DOMAIN dailyLogs : /\ dailyLogs[i].user_id = userId
                              /\ dailyLogs[i].date \in (today - 13)..today
                              /\ ~dailyLogs[i].checkin_json.isNull}

\* C27: whatever logs storage returns for the 14 days, the report numbers
\* satisfy 0 <= streak <= checkinsThisWeek <= 7 and
\* 0 <= completenessRate <= 100, streak is 0 exactly when checkinsThisWeek
\* is 0, and the two weeks are disjoint: every log with a payload is counted
\* in exactly one of them, last week being the 7 days before this week.
C27_ReportNumbersInRange ==
    fnRes.pc = "done"
    => LET sd == fnRes.summaryData
       IN /\ 0 <= sd.streak
          /\ sd.streak <= sd.checkinsThisWeek
          /\ sd.checkinsThisWeek <= 7
          /\ 0 <= sd.completenessRate
          /\ sd.completenessRate <= 100
          /\ sd.streak = 0 <=> sd.checkinsThisWeek = 0
          /\ fnRes.read = "ok"
                => /\ sd.checkinsThisWeek + sd.checkinsLastWeek
                         = Cardinality(PayloadLogs(fnArg))
                   /\ sd.checkinsLastWeek
                         = Cardinality({i \in PayloadLogs(fnArg) :
                                           dailyLogs[i].date < today - 6})

\* a report over a week whose first day and the day before it both have a
\* check-in, with a gap later in the week
C27_Witness ==
    /\ fnRes.pc = "done" /\ fnRes.read = "ok"
    /\ \E i, j \in PayloadLogs(fnArg) : /\ dailyLogs[i].date = today - 6
                                        /\ dailyLogs[j].date = today - 7
    /\ fnRes.summaryData.checkinsLastWeek = 1
    /\ fnRes.summaryData.checkinsThisWeek = 5
    /\ fnRes.summaryData.streak = 3
    /\ fnRes.summaryData.completenessRate = 71

====
